---- MODULE Spec2Model ----
(***************************************************************************)
(* Per-session orchestration engine of the MentraOS translation and        *)
(* response assistant.  The repository holds two variants of the session   *)
(* controller (src/unnamed/part_001 and src/unnamed/part_002); the         *)
(* variable impl says which one a behaviour runs (1 or 2).                 *)
(*                                                                         *)
(* A string is a sequence of one-character strings.  Handlers are written  *)
(* as operators from a world record (every variable of the model as a      *)
(* field) to a world record; an awaited network call or timer suspends the *)
(* handler as an entry of tasks, holding the stack of frames to continue.  *)
(***************************************************************************)
EXTENDS Integers, Sequences, FiniteSets, TLC

VARIABLES
  impl,                       \* 1: part_001, 2: part_002
  now,                        \* Date.now()
  ws,                         \* the session transport's readyState
  isSessionClosed, isRecordingActive, isSpeaking,
  speakingTimeout, responseTimeout,
  audioBuffer, smClient, smClientActive, isAudioSubscribed,
  conversationContext, activeOptions, currentIndex, isSelectionStarted,
  pendingIntent, isGenerating, isTranslating, currentTranslationId,
  lastInterimTranslationTime, persistentGlassContent,
  lastDisplayCallTime, lastDisplayedText, lastSpeakerId,
  expirationInterval,         \* next due time of the sweep, or None
  listening,                  \* the session's internalEvents listeners are on
  userSessionsMap,            \* userSessionsMap.has(userId)
  globalState,                \* globalState.get(userId), or None
  sseClients,                 \* number of SSE responses registered for userId
  tasks,                      \* suspended handler activations
  timers,                     \* armed setTimeout callbacks
  glasses,                    \* what session.layouts.showTextWall last showed
  out,                        \* the last message sent to an external party
  generationCalls,                  \* generation calls issued to the model service
  clients,                    \* transcription clients created: their status
  events,                     \* number of external events handled so far
  finalEvents,                \* number of final transcripts among them
  optionsStoredAt,            \* Date.now() when a generation last stored
                              \* a non-empty candidate list, or None
  languageRequested,          \* the last language_changed event handled, or None
  cleanupRan,                 \* the cleanup handler has been invoked
  spokeAt,                    \* Date.now() when isSpeaking was last set, or None
  chunksArrived,              \* number of audio chunks delivered so far
  chunksQueued                \* the chunks that were pushed to audioBuffer

vars == << impl, now, ws, isSessionClosed, isRecordingActive, isSpeaking,
           speakingTimeout, responseTimeout, audioBuffer, smClient,
           smClientActive, isAudioSubscribed, conversationContext,
           activeOptions, currentIndex, isSelectionStarted, pendingIntent,
           isGenerating, isTranslating, currentTranslationId,
           lastInterimTranslationTime, persistentGlassContent,
           lastDisplayCallTime, lastDisplayedText, lastSpeakerId,
           expirationInterval, listening, userSessionsMap, globalState,
           sseClients, tasks, timers, glasses, out, generationCalls, clients,
           events, finalEvents, optionsStoredAt, languageRequested,
           cleanupRan, spokeAt, chunksArrived, chunksQueued >>

\* An optional value: None, or Some(x)
None == <<>>
Some(x) == <<x>>
the(o) == o[1]

----------------------------------------------------------------------------
(* Strings *)

WS == {" ", "\n"}

RECURSIVE trimStart(_)
trimStart(s) == IF s # <<>> /\ Head(s) \in WS THEN trimStart(Tail(s)) ELSE s

RECURSIVE trimEnd(_)
trimEnd(s) ==
  IF s # <<>> /\ s[Len(s)] \in WS THEN trimEnd(SubSeq(s, 1, Len(s) - 1)) ELSE s

\* String.prototype.trim
trim(s) == trimEnd(trimStart(s))

\* String.prototype.endsWith, for a one-character suffix
endsWith(s, c) == s # <<>> /\ s[Len(s)] = c

\* s.split(" ").length
splitLength(s) == 1 + Cardinality({i \in 1..Len(s) : s[i] = " "})

\* s.substring(s.length - n), for s.length >= n
lastChars(s, n) == SubSeq(s, Len(s) - n + 1, Len(s))

\* `[${speakerId}] ${text}`
bracketed(speakerId, text) == <<"[">> \o speakerId \o <<"]", " ">> \o text

\* `${speakerId}: ${text}`
labelled(speakerId, text) == speakerId \o <<":", " ">> \o text

\* A text of n characters that repeats with period 7
Alphabet == <<"a", "b", "c", "d", "e", "f", "g">>
Pat(n) == [i \in 1..n |-> Alphabet[(i % 7) + 1]]

----------------------------------------------------------------------------
(* Program constants *)

MAX_DISPLAY_CHARS == 120
DISPLAY_COOLDOWN_MS1 == 600
DISPLAY_COOLDOWN_MS2 == 800
DISPLAY_COOLDOWN_MS(v) == IF v = 1 THEN DISPLAY_COOLDOWN_MS1 ELSE DISPLAY_COOLDOWN_MS2
maxRetries == 2
retryDelay == 200
SDK_TIMEOUT == 3000
FRESHNESS_MS == 10000
MAX_CONTEXT == 15
SELECTION_CONTEXT == 10
MAX_OPTIONS == 4
FINAL_TRANSLATION_ID == 999999
INTERIM_COOLDOWN1 == 1500
INTERIM_COOLDOWN2 == 1200
MIN_WORDS == 4
SWEEP_MS == 2000
START_DELAY_MS == 2000
CLEAR_DELAY_MS == 3000
RESPONSE_EXPIRY_MS == 10000
INTRO_EXPIRY_MS == 30000
EXPIRED_CLEAR_MS == 1000
FILLER_MUTE_MS == 10000
SELECTION_MUTE_MS == 15000

----------------------------------------------------------------------------
(* Bounds of the model *)

\* Date.now() when the session starts: later than any interval of the program
StartTime == 40000
\* chunks a translation stream delivers at most
MaxChunks == 2

----------------------------------------------------------------------------
(* The world record: every variable as a field.  out describes what the    *)
(* step now being taken sends out, so it starts empty in every step.       *)

NoOut == [stateUpdated |-> FALSE, sse |-> None, http |-> None,
          webhook |-> None, shown |-> None, dropped |-> None, error |-> None,
          received |-> None, composed |-> None, control |-> None,
          started |-> None, returned |-> None, resumed |-> None,
          audio |-> None, outcome |-> None]

W == [impl |-> impl, now |-> now, ws |-> ws,
      isSessionClosed |-> isSessionClosed,
      isRecordingActive |-> isRecordingActive, isSpeaking |-> isSpeaking,
      speakingTimeout |-> speakingTimeout, responseTimeout |-> responseTimeout,
      audioBuffer |-> audioBuffer, smClient |-> smClient,
      smClientActive |-> smClientActive, isAudioSubscribed |-> isAudioSubscribed,
      conversationContext |-> conversationContext,
      activeOptions |-> activeOptions, currentIndex |-> currentIndex,
      isSelectionStarted |-> isSelectionStarted, pendingIntent |-> pendingIntent,
      isGenerating |-> isGenerating, isTranslating |-> isTranslating,
      currentTranslationId |-> currentTranslationId,
      lastInterimTranslationTime |-> lastInterimTranslationTime,
      persistentGlassContent |-> persistentGlassContent,
      lastDisplayCallTime |-> lastDisplayCallTime,
      lastDisplayedText |-> lastDisplayedText, lastSpeakerId |-> lastSpeakerId,
      expirationInterval |-> expirationInterval, listening |-> listening,
      userSessionsMap |-> userSessionsMap, globalState |-> globalState,
      sseClients |-> sseClients, tasks |-> tasks, timers |-> timers,
      glasses |-> glasses, out |-> NoOut, generationCalls |-> generationCalls,
      clients |-> clients, events |-> events, finalEvents |-> finalEvents,
      optionsStoredAt |-> optionsStoredAt,
      languageRequested |-> languageRequested, cleanupRan |-> cleanupRan,
      spokeAt |-> spokeAt, chunksArrived |-> chunksArrived,
      chunksQueued |-> chunksQueued]

Commit(w) ==
  /\ impl' = w.impl /\ now' = w.now /\ ws' = w.ws
  /\ isSessionClosed' = w.isSessionClosed
  /\ isRecordingActive' = w.isRecordingActive /\ isSpeaking' = w.isSpeaking
  /\ speakingTimeout' = w.speakingTimeout
  /\ responseTimeout' = w.responseTimeout
  /\ audioBuffer' = w.audioBuffer /\ smClient' = w.smClient
  /\ smClientActive' = w.smClientActive
  /\ isAudioSubscribed' = w.isAudioSubscribed
  /\ conversationContext' = w.conversationContext
  /\ activeOptions' = w.activeOptions /\ currentIndex' = w.currentIndex
  /\ isSelectionStarted' = w.isSelectionStarted
  /\ pendingIntent' = w.pendingIntent
  /\ isGenerating' = w.isGenerating /\ isTranslating' = w.isTranslating
  /\ currentTranslationId' = w.currentTranslationId
  /\ lastInterimTranslationTime' = w.lastInterimTranslationTime
  /\ persistentGlassContent' = w.persistentGlassContent
  /\ lastDisplayCallTime' = w.lastDisplayCallTime
  /\ lastDisplayedText' = w.lastDisplayedText
  /\ lastSpeakerId' = w.lastSpeakerId
  /\ expirationInterval' = w.expirationInterval /\ listening' = w.listening
  /\ userSessionsMap' = w.userSessionsMap /\ globalState' = w.globalState
  /\ sseClients' = w.sseClients /\ tasks' = w.tasks /\ timers' = w.timers
  /\ glasses' = w.glasses /\ out' = w.out /\ generationCalls' = w.generationCalls
  /\ clients' = w.clients /\ events' = w.events
  /\ finalEvents' = w.finalEvents
  /\ optionsStoredAt' = w.optionsStoredAt
  /\ languageRequested' = w.languageRequested
  /\ cleanupRan' = w.cleanupRan
  /\ spokeAt' = w.spokeAt
  /\ chunksArrived' = w.chunksArrived
  /\ chunksQueued' = w.chunksQueued

\* The entry a handler creates when globalState has none for the user
defaultState == [lastText |-> <<>>, lastTextTimestamp |-> 0, options |-> <<>>,
                 targetLanguage |-> "english", targetLanguageCode |-> "en"]

\* state?.targetLanguage || "English", lower-cased
targetLanguageName(w) ==
  IF w.globalState = None THEN "english" ELSE the(w.globalState).targetLanguage

\* A frame of a suspended handler: where it continues and its locals;
\* before is no local of the code: it keeps what the handler found when it
\* was triggered
Frame0 == [pc |-> "none", seq |-> 0, text |-> <<>>, force |-> FALSE, i |-> 0,
           isFinal |-> FALSE, speakerId |-> <<>>, myTranslationId |-> 0,
           fullContent |-> <<>>, lastSent |-> <<>>, lastUpdateLength |-> 0,
           lastDisplayUpdateTime |-> 0, n |-> 0, english |-> FALSE,
           lastText |-> <<>>, before |-> None]

\* The handler whose top frame is f stops at an await: it becomes a task
suspend(w, kind, due, f, K) ==
  [w EXCEPT !.tasks = Append(@, [await |-> kind, due |-> due, k |-> <<f>> \o K])]

\* Remove the i-th element of a sequence
removeAt(s, i) == SubSeq(s, 1, i - 1) \o SubSeq(s, i + 1, Len(s))

----------------------------------------------------------------------------
(* Shared State readers' notification (webview) *)

\* What a reader is sent; age is the age of lastText when it is sent
payload(w, st) ==
  [options |-> st.options, lastText |-> st.lastText,
   targetLanguage |-> st.targetLanguage,
   targetLanguageCode |-> st.targetLanguageCode,
   age |-> w.now - st.lastTextTimestamp]

broadcastState(w) ==
  IF w.sseClients = 0 \/ w.globalState = None THEN w
  ELSE [w EXCEPT !.out.sse = Some(payload(w, the(w.globalState)))]

\* internalEvents.emit('state_updated', userId)
emitStateUpdated(w) == broadcastState([w EXCEPT !.out.stateUpdated = TRUE])

----------------------------------------------------------------------------
(* Display Compositor *)

\* Ret(w, K): the handler whose callee just returned continues with the
\* frames K (defined after the handlers)
RECURSIVE Ret(_, _)

closed(w) == [w EXCEPT !.isSessionClosed = TRUE]

\* safeShowText's rate limit
throttled(w, force) ==
  IF w.impl = 1
  THEN ~force /\ w.now - w.lastDisplayCallTime < DISPLAY_COOLDOWN_MS1
  ELSE w.now - w.lastDisplayCallTime < DISPLAY_COOLDOWN_MS2

\* One iteration of safeShowText's retry loop without the check of the
\* closed flag before the write
sstLoopUnchecked(w, f, K) ==
  IF f.i >= maxRetries THEN Ret(w, K)
  ELSE IF ~w.userSessionsMap THEN Ret(closed(w), K)
  ELSE IF w.ws = "missing" /\ f.i = 0 THEN Ret(closed(w), K)
  ELSE IF w.ws \in {"connecting", "closed"} THEN
    IF w.ws = "connecting" /\ f.i < maxRetries - 1
    THEN suspend(w, "delay", w.now + retryDelay,
                 [f EXCEPT !.pc = "sst.connecting"], K)
    ELSE Ret(closed(w), K)
  ELSE suspend([w EXCEPT !.out.started =
                         Some([text |-> f.text, closed |-> w.isSessionClosed])],
               "showTextWall",
               IF w.impl = 2 THEN w.now + SDK_TIMEOUT ELSE 0,
               [f EXCEPT !.pc = "sst.show"], K)

\* One iteration of safeShowText's retry loop, up to its await
sstLoop(w, f, K) ==
  IF f.i >= maxRetries THEN Ret(w, K)
  ELSE IF ~w.userSessionsMap THEN Ret(closed(w), K)
  ELSE IF w.ws = "missing" /\ f.i = 0 THEN Ret(closed(w), K)
  ELSE IF w.ws \in {"connecting", "closed"} THEN
    IF w.ws = "connecting" /\ f.i < maxRetries - 1
    THEN suspend(w, "delay", w.now + retryDelay,
                 [f EXCEPT !.pc = "sst.connecting"], K)
    ELSE Ret(closed(w), K)
  ELSE IF w.isSessionClosed THEN Ret(w, K)
  ELSE suspend([w EXCEPT !.out.started =
                         Some([text |-> f.text, closed |-> w.isSessionClosed])],
               "showTextWall",
               IF w.impl = 2 THEN w.now + SDK_TIMEOUT ELSE 0,
               [f EXCEPT !.pc = "sst.show"], K)

safeShowText(w, seq, text, force, K) ==
  IF w.isSessionClosed THEN Ret(w, K)
  ELSE IF throttled(w, force) THEN Ret([w EXCEPT !.out.dropped = Some(text)], K)
  ELSE sstLoop([w EXCEPT !.lastDisplayCallTime = w.now],
               [Frame0 EXCEPT !.seq = seq, !.text = text, !.force = force], K)

\* session.layouts.showTextWall settles: safeShowText continues
showTextWallSettled(w, f, K, outcome) ==
  IF outcome = "ok"
  THEN Ret([w EXCEPT !.glasses = f.text, !.out.shown = Some(f.text)], K)
  ELSE IF w.impl = 2 THEN
    IF outcome = "SDK_TIMEOUT" THEN sstLoop(w, [f EXCEPT !.i = @ + 1], K)
    ELSE IF outcome = "not connected" THEN
      IF f.i < maxRetries - 1
      THEN suspend(w, "delay", w.now + retryDelay,
                   [f EXCEPT !.pc = "sst.failed"], K)
      ELSE sstLoop(closed(w), [f EXCEPT !.i = @ + 1], K)
    ELSE Ret(w, K)
  ELSE suspend(IF f.i = maxRetries - 1 THEN closed(w) ELSE w,
               "delay", w.now + retryDelay, [f EXCEPT !.pc = "sst.failed"], K)

\* safeShowText's retry delay is over
retryDelayElapsed(w, f, K) ==
  IF w.impl = 2 /\ w.isSessionClosed THEN Ret(w, K)
  ELSE sstLoop(w, [f EXCEPT !.i = @ + 1], K)

\* The text updateDisplayWithLog composes from (history, current)
composeDisplay(v, history, current) ==
  IF current # <<>> /\ trim(current) # <<>>
  THEN (IF history # <<>> THEN history \o <<" ">> ELSE <<>>)
       \o (IF v = 1 THEN trim(current) ELSE current)
  ELSE history

\* Tail clipping to MAX_DISPLAY_CHARS
tailClip(displayText) ==
  IF Len(displayText) > MAX_DISPLAY_CHARS
  THEN lastChars(displayText, MAX_DISPLAY_CHARS)
  ELSE displayText

updateDisplayWithLog(w, seq, history, current, force, K) ==
  IF w.isSessionClosed THEN Ret(w, K)
  ELSE
    LET displayText == composeDisplay(w.impl, history, current)
        skip == displayText = w.lastDisplayedText /\ (w.impl = 2 \/ ~force)
        text == tailClip(displayText)
        w0 == [w EXCEPT !.out.composed =
                 Some([history |-> history, current |-> current,
                       displayText |-> displayText, text |-> text,
                       skipped |-> skip])]
        w1 == [w0 EXCEPT !.lastDisplayedText = displayText]
        store == [Frame0 EXCEPT !.pc = "udwl.store", !.seq = seq, !.text = text]
    IN IF skip THEN Ret(w0, K)
       ELSE IF w.impl = 2 \/ text # <<>> \/ force
       THEN safeShowText(w1, seq, text, w.impl = 1 /\ force, <<store>> \o K)
       ELSE Ret(w1, <<store>> \o K)

\* updateDisplayWithLog after its display write: the Shared State update
udwlStore(w, text) ==
  LET st == IF w.globalState = None THEN defaultState ELSE the(w.globalState)
  IN emitStateUpdated(
       [w EXCEPT !.globalState =
          Some([st EXCEPT !.lastText = text, !.lastTextTimestamp = w.now])])

----------------------------------------------------------------------------
(* Translation Stream Processor *)

isEnglish(w) == targetLanguageName(w) = "english"

\* (speakerId && speakerId !== lastSpeakerId) ? `[${speakerId}] ${text}` : text
withSpeaker(w, speakerId, text) ==
  IF speakerId # <<>> /\ speakerId # w.lastSpeakerId
  THEN bracketed(speakerId, text) ELSE text

\* conversationContext.push(entry) without a cap
pushUncapped(v, ctx, entry) == Append(ctx, entry)

\* conversationContext.push(entry) followed by the cap of processTranscription:
\* shift() in part_001, slice(length - 15) in part_002
pushCapped(v, ctx, entry) ==
  LET c == Append(ctx, entry)
  IN IF Len(c) > MAX_CONTEXT
     THEN (IF v = 1 THEN Tail(c) ELSE lastChars(c, MAX_CONTEXT))
     ELSE c

\* The interim debounce: enough words and the cooldown is over
shouldTranslate(w, transcript, isFinal) ==
  \/ isFinal
  \/ /\ splitLength(trim(transcript)) > MIN_WORDS
     /\ w.now - w.lastInterimTranslationTime >
          (IF w.impl = 1 THEN INTERIM_COOLDOWN1 ELSE INTERIM_COOLDOWN2)

\* processTranscription without the in-flight lock
mayStartUnlocked(w, isFinal) == TRUE

\* processTranscription passes the in-flight lock
mayStart(w, isFinal) ==
  IF w.impl = 1 THEN ~w.isTranslating \/ isFinal ELSE ~w.isTranslating

\* The finally block of processTranscription
ptFinally(w, f) ==
  IF w.impl = 1 /\ f.isFinal THEN w ELSE [w EXCEPT !.isTranslating = FALSE]

\* The commit of a final: history, persistent display content, display
ptCommit(w, f, finalThought, K) ==
  LET entry == [role |-> "user",
                content |-> IF f.speakerId # <<>>
                            THEN labelled(f.speakerId, finalThought)
                            ELSE finalThought]
      shownFinal == withSpeaker(w, f.speakerId, trim(finalThought))
      appended == (IF w.persistentGlassContent # <<>>
                   THEN w.persistentGlassContent \o <<" ">> ELSE <<>>)
                  \o shownFinal
      content == IF w.impl = 1 THEN appended
                 ELSE LET c == IF trim(finalThought) # <<>> THEN appended
                                ELSE w.persistentGlassContent
                      IN IF Len(c) > MAX_DISPLAY_CHARS * 2
                         THEN lastChars(c, MAX_DISPLAY_CHARS * 2) ELSE c
      speaker == IF f.speakerId # <<>> /\ (w.impl = 1 \/ trim(finalThought) # <<>>)
                 THEN f.speakerId ELSE w.lastSpeakerId
      w1 == [w EXCEPT !.conversationContext = pushCapped(w.impl, @, entry),
                      !.persistentGlassContent = content,
                      !.lastSpeakerId = speaker]
  IN updateDisplayWithLog(w1, f.seq, content, <<>>, w.impl = 1, K)

\* part_002, after the translation (line 282 on)
ptTail2(w, f, translation) ==
  IF w.isSessionClosed THEN ptFinally(w, f)
  ELSE IF f.isFinal
  THEN ptCommit(w, f, translation, <<[f EXCEPT !.pc = "pt.finally"]>>)
  ELSE ptFinally(w, f)

\* After the streaming loop
ptAfterLoop(w, f) ==
  IF w.impl = 1
  THEN IF f.isFinal
       THEN ptCommit(w, f, trim(f.fullContent), <<[f EXCEPT !.pc = "pt.finally"]>>)
       ELSE ptFinally(w, f)
  ELSE ptTail2(w, f, f.fullContent)

\* The catch block of processTranscription
ptCatch(w, f) ==
  IF w.impl = 2 /\ f.isFinal
  THEN ptFinally(updateDisplayWithLog(w, f.seq, <<>>, <<" ">> \o f.text,
                                      FALSE, <<>>), f)
  ELSE ptFinally(w, f)

\* for await: wait for the next chunk of the stream
awaitChunk(w, f) == suspend(w, "groqChunk", 0, [f EXCEPT !.pc = "pt.stream"], <<>>)

\* groq.chat.completions.create settles
streamCreated(w, f, outcome) ==
  IF outcome = "ok" THEN awaitChunk(w, f) ELSE ptCatch(w, f)

\* part_001: one chunk of the stream
ptChunk1(w, f, content) ==
  IF w.isSessionClosed \/ (~f.isFinal /\ f.myTranslationId # w.currentTranslationId)
  THEN ptAfterLoop(w, f)
  ELSE
    LET full == f.fullContent \o content
        f1 == [f EXCEPT !.fullContent = full, !.n = @ + 1]
    IN IF Len(full) > f.lastUpdateLength + 15 \/ endsWith(full, ".")
          \/ endsWith(full, "?")
       THEN updateDisplayWithLog(w, f.seq, w.persistentGlassContent,
              withSpeaker(w, f.speakerId, full), endsWith(full, "."),
              <<[f1 EXCEPT !.lastUpdateLength = Len(full), !.pc = "pt.next"]>>)
       ELSE awaitChunk(w, f1)

\* part_002: one chunk of the stream
ptChunk2(w, f, content) ==
  IF f.myTranslationId # w.currentTranslationId \/ w.isSessionClosed
  THEN ptAfterLoop(w, f)
  ELSE
    LET full == f.fullContent \o content
        f1 == [f EXCEPT !.fullContent = full, !.n = @ + 1]
        isEndOfSegment == endsWith(full, ".") \/ endsWith(full, "?")
                          \/ endsWith(full, "!")
        charThreshold == IF f.lastSent = <<>> THEN 10 ELSE 25
        shouldUpdateDisplay ==
          /\ content # <<>>
          /\ \/ isEndOfSegment
             \/ Len(full) > Len(f.lastSent) + charThreshold
             \/ /\ w.now - f.lastDisplayUpdateTime > 800
                /\ Len(full) > Len(f.lastSent) + 5
        interim == IF trim(full) # <<>>
                   THEN (IF w.persistentGlassContent # <<>>
                         THEN w.persistentGlassContent \o <<" ">> ELSE <<>>)
                        \o withSpeaker(w, f.speakerId, trim(full))
                   ELSE w.persistentGlassContent
        displayText == tailClip(interim)
    IN IF shouldUpdateDisplay
       THEN safeShowText(w, f.seq, displayText, FALSE,
              <<[f1 EXCEPT !.lastDisplayUpdateTime = w.now, !.lastSent = full,
                           !.text = displayText, !.pc = "pt.shown"]>>)
       ELSE awaitChunk(w, f1)

\* part_002: after the display write of a streamed partial (lines 268-272)
ptShown2(w, f) ==
  LET w1 == IF w.globalState = None THEN w
            ELSE [w EXCEPT !.globalState =
                    Some([the(@) EXCEPT !.lastText = f.text,
                                        !.lastTextTimestamp = w.now])]
  IN awaitChunk(w1, f)

\* The stream delivers a chunk, ends, or throws
streamSettled(w, f, outcome, content) ==
  IF outcome = "chunk"
  THEN IF w.impl = 1 THEN ptChunk1(w, f, content) ELSE ptChunk2(w, f, content)
  ELSE IF outcome = "done" THEN ptAfterLoop(w, f)
  ELSE ptCatch(w, f)

processTranscription(w, transcript, isFinal, speakerId) ==
  IF w.isSessionClosed \/ transcript = <<>> \/ trim(transcript) = <<>> THEN w
  ELSE
    LET f == [Frame0 EXCEPT !.seq = w.events, !.text = transcript,
                            !.isFinal = isFinal, !.speakerId = speakerId,
                            !.english = isEnglish(w)]
    IN IF w.impl = 1 THEN
         IF isEnglish(w) THEN
           IF ~isFinal
           THEN updateDisplayWithLog(w, f.seq, w.persistentGlassContent,
                  withSpeaker(w, speakerId, transcript), FALSE, <<>>)
           ELSE ptCommit(w, f, trim(transcript), <<>>)
         ELSE IF shouldTranslate(w, transcript, isFinal) /\ mayStart(w, isFinal)
         THEN LET w1 == IF isFinal THEN w
                        ELSE [w EXCEPT !.currentTranslationId = @ + 1,
                                       !.isTranslating = TRUE,
                                       !.lastInterimTranslationTime = w.now]
                  id == IF isFinal THEN FINAL_TRANSLATION_ID
                        ELSE w1.currentTranslationId
              IN suspend(w1, "groqCreate", 0,
                         [f EXCEPT !.myTranslationId = id, !.pc = "pt.create"],
                         <<>>)
         ELSE w
       ELSE
         IF shouldTranslate(w, transcript, isFinal) /\ mayStart(w, isFinal)
         THEN LET w1 == [w EXCEPT !.isTranslating = TRUE,
                                  !.currentTranslationId = @ + 1,
                                  !.lastInterimTranslationTime =
                                     IF isFinal THEN @ ELSE w.now]
                  f1 == [f EXCEPT !.myTranslationId = w1.currentTranslationId]
              IN IF isEnglish(w) THEN
                   IF ~isFinal
                   THEN updateDisplayWithLog(w1, f.seq, w.persistentGlassContent,
                          withSpeaker(w, speakerId, trim(transcript)), FALSE,
                          <<[f1 EXCEPT !.pc = "pt.tail"]>>)
                   ELSE ptTail2(w1, f1, trim(transcript))
                 ELSE suspend(w1, "groqCreate", 0,
                              [f1 EXCEPT !.pc = "pt.create"], <<>>)
         ELSE w

----------------------------------------------------------------------------
(* Timers *)

\* setTimeout(callback, ms): the callback is named by kind
setTimeout(w, kind, ms) ==
  [w EXCEPT !.timers = Append(@, [kind |-> kind, due |-> w.now + ms])]

handleOf(w, ms, kind) == Some([kind |-> kind, due |-> w.now + ms])

RECURSIVE indexOf(_, _, _)
indexOf(s, x, i) ==
  IF i > Len(s) THEN 0 ELSE IF s[i] = x THEN i ELSE indexOf(s, x, i + 1)

\* clearTimeout(handle): a no-op for a timer that fired or was cleared
clearTimeout(w, handle) ==
  IF handle = None \/ indexOf(w.timers, the(handle), 1) = 0 THEN w
  ELSE [w EXCEPT !.timers = removeAt(@, indexOf(w.timers, the(handle), 1))]

\* if (responseTimeout) { clearTimeout(responseTimeout); responseTimeout = null; }
clearResponseTimeout(w) ==
  [clearTimeout(w, w.responseTimeout) EXCEPT !.responseTimeout = None]

\* isSpeaking = true with the safety timeout of part_002
markSpeaking(w, ms) ==
  IF w.impl = 1 THEN [w EXCEPT !.isSpeaking = TRUE, !.spokeAt = Some(w.now)]
  ELSE [setTimeout(clearTimeout(w, w.speakingTimeout), "speaking", ms)
          EXCEPT !.isSpeaking = TRUE, !.spokeAt = Some(w.now),
                 !.speakingTimeout = handleOf(w, ms, "speaking")]

----------------------------------------------------------------------------
(* Response Generation Engine *)

Digit == <<"1", "2", "3", "4", "5", "6", "7", "8", "9">>

\* The i-th response of the g-th generation call
response(g, i) == [text |-> <<"r", Digit[g], Digit[i]>>,
                   english |-> <<"e", Digit[g], Digit[i]>>]

\* responses.map(...) without the slice
sliceAll(g, n) == [i \in 1..n |-> response(g, i)]

\* responses.slice(0, 4).map(...)
sliceOptions(g, n) ==
  [i \in 1..(IF n > MAX_OPTIONS THEN MAX_OPTIONS ELSE n) |-> response(g, i)]

\* The candidate list as shown on the glasses, the selected one marked
RECURSIVE optionsList(_, _, _)
optionsList(options, selected, i) ==
  IF i > Len(options) THEN <<>>
  ELSE (IF i = selected THEN <<">", " ">> \o options[i].english \o <<" ", "<">>
        ELSE <<" ", " ">> \o options[i].english)
       \o (IF i < Len(options) THEN <<"\n">> ELSE <<>>)
       \o optionsList(options, selected, i + 1)

chooseText(options, selected) == <<"Choose:", "\n">> \o optionsList(options, selected, 1)
introText(options) == <<"Intro:", "\n">> \o optionsList(options, 1, 1)

\* s.options = activeOptions on the Shared State entry
setOptions(st, options) == [st EXCEPT !.options = options]

\* The stale check of onGenerateResponses
staleOrEmpty(w) ==
  \/ w.globalState = None
  \/ the(w.globalState).lastText = <<>>
  \/ w.now - the(w.globalState).lastTextTimestamp > FRESHNESS_MS

\* state.lastText = ""; state.lastTextTimestamp = 0
clearLastText(w) ==
  IF w.globalState = None THEN w
  ELSE [w EXCEPT !.globalState =
          Some([the(@) EXCEPT !.lastText = <<>>, !.lastTextTimestamp = 0])]

\* The generation call is issued
callGeneration(w, f) ==
  suspend([w EXCEPT !.generationCalls = @ + 1], "groqJSON", 0,
          [f EXCEPT !.pc = "gen.call", !.n = w.generationCalls + 1], <<>>)

\* part_002: after the "..." display write, up to the generation call
genAfterDots(w, f) == callGeneration([w EXCEPT !.pendingIntent = <<>>], f)

\* What a generation trigger finds
found(w) == [globalState |-> w.globalState,
             persistentGlassContent |-> w.persistentGlassContent,
             pendingIntent |-> w.pendingIntent,
             activeOptions |-> w.activeOptions]

onGenerateResponses(w) ==
  IF ~w.listening \/ w.isSessionClosed \/ w.isGenerating THEN w
  ELSE
    LET f == [Frame0 EXCEPT !.seq = w.events, !.before = Some(found(w))]
    IN IF w.impl = 1 THEN
         IF staleOrEmpty(w) THEN w
         ELSE callGeneration([w EXCEPT !.isGenerating = TRUE],
                             [f EXCEPT !.lastText = the(w.globalState).lastText])
       ELSE IF w.ws \in {"connecting", "closed"} THEN w
       ELSE
         LET w1 == [clearResponseTimeout(w) EXCEPT !.isGenerating = TRUE]
         IN IF staleOrEmpty(w1) THEN clearLastText(w1)
            ELSE safeShowText(
                   clearLastText([w1 EXCEPT !.persistentGlassContent = <<>>]),
                   f.seq, <<".", ".", ".">>, FALSE,
                   <<[f EXCEPT !.pc = "gen.dots",
                               !.lastText = the(w.globalState).lastText]>>)

\* finally { isGenerating = false }
genFinally(w) == [w EXCEPT !.isGenerating = FALSE]

\* The generation call settles: unparseable output, a rejection, or a
\* parsed object with n responses (n < 0: no array) and maybe a filler
generationSettled(w, f, outcome, n, filler) ==
  IF outcome # "ok"
  THEN \* part_001 has no catch block: the listener's promise rejects
       IF w.impl = 1
       THEN genFinally([w EXCEPT !.out.error = Some("UnhandledRejection")])
       ELSE genFinally(w)
  ELSE
    LET w1 == IF filler
              THEN [markSpeaking(w, FILLER_MUTE_MS)
                     EXCEPT !.out.webhook = Some(<<"filler">>)]
              ELSE w
    IN IF n < 0 THEN genFinally(w1)
       ELSE
         LET options == sliceOptions(f.n, n)
             w1a == IF options = <<>> THEN w1
                    ELSE [w1 EXCEPT !.optionsStoredAt = Some(w.now)]
             w2 == IF w.impl = 1 THEN [w1a EXCEPT !.activeOptions = options]
                   ELSE [w1a EXCEPT !.activeOptions = options,
                                    !.currentIndex = 0,
                                    !.isSelectionStarted = FALSE]
         IN IF w.impl = 1 /\ w2.globalState = None THEN genFinally(w2)
            ELSE
              LET st == IF w2.globalState = None THEN defaultState
                        ELSE the(w2.globalState)
                  w3 == emitStateUpdated(
                          [w2 EXCEPT !.globalState = Some(setOptions(st, options))])
              IN IF w.impl = 2 /\ w3.isSessionClosed THEN genFinally(w3)
                 ELSE safeShowText(w3, f.seq, chooseText(options, 1), w.impl = 1,
                                   <<[f EXCEPT !.pc = "gen.shown"]>>)

\* After the candidate list was written to the display
genShown(w) ==
  IF w.impl = 1 THEN genFinally(w)
  ELSE genFinally([setTimeout(w, "response", RESPONSE_EXPIRY_MS)
                    EXCEPT !.responseTimeout =
                             handleOf(w, RESPONSE_EXPIRY_MS, "response")])

\* The candidate-expiry timer of onGenerateResponses fires (part_002)
responseExpired(w) ==
  IF w.activeOptions # <<>> THEN
    LET w1 == [w EXCEPT !.activeOptions = <<>>, !.isSelectionStarted = FALSE,
                        !.globalState =
                          IF @ = None THEN @
                          ELSE Some([the(@) EXCEPT !.options = <<>>,
                                                   !.lastText = <<>>,
                                                   !.lastTextTimestamp = 0])]
    IN IF ~w1.isSessionClosed
       THEN safeShowText(w1, w.events, <<"Expired">>, FALSE,
                         <<[Frame0 EXCEPT !.seq = w.events, !.pc = "expire.shown"]>>)
       ELSE [w1 EXCEPT !.responseTimeout = None]
  ELSE [w EXCEPT !.responseTimeout = None]

\* After "Expired" was written to the display
expireShown(w) ==
  [setTimeout(w, "clear", EXPIRED_CLEAR_MS) EXCEPT !.responseTimeout = None]

----------------------------------------------------------------------------
(* Selection, cycling, conversation start *)

\* conversationContext.push(selection) with the trim of handleActionedSelection
pushSelection(ctx, selectedText) ==
  LET c == Append(ctx, [role |-> "assistant", content |-> selectedText])
  IN IF Len(c) > SELECTION_CONTEXT THEN Tail(c) ELSE c

handleActionedSelection(w, selectedText) ==
  IF w.isSessionClosed \/ (w.impl = 2 /\ ~w.userSessionsMap) THEN w
  ELSE
    LET w1 == [w EXCEPT !.conversationContext = pushSelection(@, selectedText)]
        w2 == IF w.impl = 1 THEN w1 ELSE clearResponseTimeout(w1)
        w3 == markSpeaking(w2, SELECTION_MUTE_MS)
    IN safeShowText(w3, w.events, <<"SELECTED:", "\n">> \o selectedText,
                    w.impl = 1,
                    <<[Frame0 EXCEPT !.seq = w.events, !.text = selectedText,
                                     !.pc = "sel.shown"]>>)

\* handleActionedSelection after its display write
selectionShown(w, f) ==
  LET st == IF w.globalState = None THEN None
            ELSE Some([the(w.globalState) EXCEPT
                         !.lastText = <<>>, !.options = <<>>,
                         !.lastTextTimestamp = IF w.impl = 1 THEN @ ELSE 0])
  IN setTimeout([w EXCEPT !.out.webhook = Some(f.text),
                          !.activeOptions = <<>>,
                          !.isSelectionStarted =
                             IF w.impl = 1 THEN @ ELSE FALSE,
                          !.globalState = st,
                          !.persistentGlassContent = <<>>,
                          !.lastSpeakerId = <<>>],
                "clear", CLEAR_DELAY_MS)

\* The delayed return to the listening display
clearDisplay(w) ==
  IF w.isSessionClosed THEN w
  ELSE updateDisplayWithLog(w, w.events, <<>>, <<>>, w.impl = 1, <<>>)

onUserSelection(w, selection) ==
  IF ~w.listening \/ (w.impl = 2 /\ w.isSessionClosed) THEN w
  ELSE handleActionedSelection(w, selection)

onSpeechFinished(w) ==
  IF ~w.listening THEN w
  ELSE IF w.impl = 1 THEN [w EXCEPT !.isSpeaking = FALSE]
  ELSE IF w.speakingTimeout = None THEN [w EXCEPT !.isSpeaking = FALSE]
  ELSE [clearTimeout(w, w.speakingTimeout)
          EXCEPT !.isSpeaking = FALSE, !.speakingTimeout = None]

\* The safety timeout of isSpeaking fires (part_002)
speakingTimedOut(w) == [w EXCEPT !.isSpeaking = FALSE]

\* The system entry onInitiateConversation puts into the history
intentEntry(v, text) ==
  [role |-> "system",
   content |-> <<IF v = 1 THEN "User wants to talk about: "
                 ELSE "The user eventually wants to talk about: ">> \o text]

onInitiateConversation(w, text) ==
  IF ~w.listening \/ w.isSessionClosed THEN w
  ELSE
    LET f == [Frame0 EXCEPT !.seq = w.events, !.pc = "intro.call"]
        w1 == [w EXCEPT !.pendingIntent = text,
                        !.conversationContext = <<intentEntry(w.impl, text)>>,
                        !.persistentGlassContent = <<>>,
                        !.lastSpeakerId = <<>>]
        st == IF w.globalState = None THEN defaultState ELSE the(w.globalState)
        w2 == IF w.impl = 1 THEN w1
              ELSE [w1 EXCEPT !.globalState =
                      Some([st EXCEPT !.lastText = text,
                                      !.lastTextTimestamp = w.now])]
        w3 == updateDisplayWithLog(w2, w.events, <<>>, text, w.impl = 1, <<>>)
        w4 == IF w.impl = 1 THEN w3 ELSE clearResponseTimeout(w3)
    IN suspend(w4, "groqIntro", 0, f, <<>>)

\* The fallback of part_002 when the introduction call fails
introFallback(w, f) ==
  LET options ==
        <<[text |-> <<"Hi, I use this device to speak, can you hear and understand me ok?">>,
           english |-> <<"Check if they can hear you">>]>>
      w1 == [w EXCEPT !.activeOptions = options]
  IN IF w1.globalState = None THEN w1
     ELSE LET w2 == [w1 EXCEPT !.globalState = Some(setOptions(the(@), options))]
          IN IF w2.isSessionClosed THEN w2
             ELSE safeShowText(w2, f.seq, <<"Intro:", "\n", "1. Can you hear me?">>,
                               FALSE, <<>>)

\* The introduction call settles; g numbers its responses
introSettled(w, f, outcome, n) ==
  IF outcome # "ok" \/ (n >= 0 /\ w.globalState = None)
  THEN IF w.impl = 1 THEN
         (IF outcome = "ok" THEN [w EXCEPT !.activeOptions = sliceOptions(9, n)]
          ELSE w)
       ELSE introFallback(IF outcome = "ok"
                          THEN [w EXCEPT !.activeOptions = sliceOptions(9, n),
                                         !.currentIndex = 0,
                                         !.isSelectionStarted = FALSE]
                          ELSE w, f)
  ELSE IF n < 0 THEN w
  ELSE
    LET options == sliceOptions(9, n)
        w1 == IF w.impl = 1 THEN [w EXCEPT !.activeOptions = options]
              ELSE [w EXCEPT !.activeOptions = options, !.currentIndex = 0,
                             !.isSelectionStarted = FALSE]
        w2 == emitStateUpdated(
                [w1 EXCEPT !.globalState = Some(setOptions(the(@), options))])
    IN IF w.impl = 2 /\ w2.isSessionClosed THEN w2
       ELSE safeShowText(w2, f.seq, introText(options), w.impl = 1,
                         <<[f EXCEPT !.pc = "intro.shown"]>>)

\* After the introduction list was written to the display
introShown(w) ==
  IF w.impl = 1 THEN w
  ELSE [setTimeout(w, "introExpiry", INTRO_EXPIRY_MS)
          EXCEPT !.responseTimeout = handleOf(w, INTRO_EXPIRY_MS, "introExpiry")]

\* The candidate-expiry timer of onInitiateConversation fires (part_002)
introExpired(w) ==
  IF w.activeOptions # <<>> THEN
    LET w1 == [w EXCEPT !.activeOptions = <<>>, !.isSelectionStarted = FALSE,
                        !.globalState =
                          IF @ = None THEN @
                          ELSE Some([the(@) EXCEPT !.options = <<>>,
                                                   !.lastText = <<>>,
                                                   !.lastTextTimestamp = 0])]
        w2 == IF w1.isSessionClosed THEN w1
              ELSE updateDisplayWithLog(w1, w.events, <<>>, <<>>, FALSE, <<>>)
    IN [w2 EXCEPT !.responseTimeout = None]
  ELSE [w EXCEPT !.responseTimeout = None]

\* The sweep without the reset of persistentGlassContent
expirationSweepKeepsContent(w) ==
  LET w0 == [w EXCEPT !.expirationInterval = Some(w.now + SWEEP_MS)]
  IN IF w.isSessionClosed THEN w0
     ELSE IF /\ w.globalState # None
             /\ the(w.globalState).lastText # <<>>
             /\ w.now - the(w.globalState).lastTextTimestamp > FRESHNESS_MS
     THEN updateDisplayWithLog(
            [w0 EXCEPT !.globalState =
                         Some([the(@) EXCEPT !.lastText = <<>>,
                                 !.lastTextTimestamp = IF w.impl = 1 THEN @ ELSE 0]),
                       !.lastSpeakerId = <<>>],
            w.events, <<>>, <<>>, w.impl = 1, <<>>)
     ELSE w0

\* The periodic sweep of stale Shared State text
expirationSweep(w) ==
  LET w0 == [w EXCEPT !.expirationInterval = Some(w.now + SWEEP_MS)]
  IN IF w.isSessionClosed THEN w0
     ELSE IF /\ w.globalState # None
             /\ the(w.globalState).lastText # <<>>
             /\ w.now - the(w.globalState).lastTextTimestamp > FRESHNESS_MS
     THEN updateDisplayWithLog(
            [w0 EXCEPT !.globalState =
                         Some([the(@) EXCEPT !.lastText = <<>>,
                                 !.lastTextTimestamp = IF w.impl = 1 THEN @ ELSE 0]),
                       !.persistentGlassContent = <<>>,
                       !.lastSpeakerId = <<>>],
            w.events, <<>>, <<>>, w.impl = 1, <<>>)
     ELSE w0

----------------------------------------------------------------------------
(* Transcription Stream Adapter and language change *)

startRecording(w, seq) ==
  IF w.isRecordingActive \/ w.isSessionClosed THEN w
  ELSE
    LET st == IF w.globalState = None THEN defaultState ELSE the(w.globalState)
        client == [status |-> "created", code |-> st.targetLanguageCode,
                   sent |-> <<>>]
    IN suspend([w EXCEPT !.globalState = Some(st),
                         !.isRecordingActive = TRUE,
                         !.clients = Append(@, client),
                         !.smClient = Some(Len(w.clients) + 1)],
               "jwt", 0, [Frame0 EXCEPT !.seq = seq, !.pc = "rec.jwt"], <<>>)

\* session.subscribe({ stream: "audio_chunk" }) at the end of startRecording
subscribeAudio(w) == [w EXCEPT !.isAudioSubscribed = TRUE]

\* The catch block of startRecording
startFailed(w) == subscribeAudio([w EXCEPT !.isRecordingActive = FALSE])

\* createSpeechmaticsJWT settles: smClient.start is called
jwtSettled(w, f, outcome) ==
  IF outcome # "ok" \/ w.smClient = None THEN startFailed(w)
  ELSE suspend(w, "smStart", 0,
               [f EXCEPT !.pc = "rec.start", !.n = the(w.smClient)], <<>>)

\* smClient.sendAudio(chunk) for every chunk of a queue
sendAll(cs, c, chunks) == [cs EXCEPT ![c].sent = @ \o chunks]

\* smClient.start settles
startSettled(w, f, outcome) ==
  IF outcome # "ok"
  THEN startFailed([w EXCEPT !.clients[f.n].status = "failed"])
  ELSE
    LET w1 == [w EXCEPT !.clients[f.n].status =
                           IF @ = "stopped" THEN @ ELSE "started",
                        !.smClientActive = TRUE]
    IN IF w1.audioBuffer = <<>> THEN subscribeAudio(w1)
       ELSE IF w1.smClient = None THEN startFailed(w1)
       ELSE subscribeAudio(
              [w1 EXCEPT !.clients = sendAll(@, the(w1.smClient), w1.audioBuffer),
                         !.audioBuffer = <<>>])

\* The language_changed listener after the old client was dealt with
langRestart(w, f) ==
  IF w.impl = 1
  THEN startRecording([w EXCEPT !.smClient = None, !.smClientActive = FALSE,
                                !.isRecordingActive = FALSE], f.seq)
  ELSE startRecording([w EXCEPT !.pendingIntent = <<>>,
                                !.isRecordingActive = FALSE,
                                !.audioBuffer = <<>>], f.seq)

\* if (smClient) await smClient.stopRecognition()
langStop(w, f) ==
  IF w.smClient # None
  THEN suspend([w EXCEPT !.clients[the(w.smClient)].status = "stopped"],
               "smStop", 0, [f EXCEPT !.pc = "lang.stop"], <<>>)
  ELSE langRestart(w, f)

\* smClient.stopRecognition settles
stopSettled(w, f, outcome) ==
  IF w.impl = 1 THEN langRestart(w, f)
  ELSE IF outcome # "ok" THEN w
  ELSE langRestart([w EXCEPT !.smClient = None, !.smClientActive = FALSE], f)

onLanguageChanged(w0, language, code) ==
  LET f == [Frame0 EXCEPT !.seq = w0.events]
      w == [w0 EXCEPT !.languageRequested =
                         Some([language |-> language, code |-> code])]
  IN
  IF w0.impl = 2 THEN
    IF ~w0.listening \/ w0.isSessionClosed THEN w0 ELSE langStop(w, f)
  ELSE
    LET st == IF w.globalState = None THEN defaultState ELSE the(w.globalState)
        w1 == emitStateUpdated(
                [w EXCEPT !.globalState =
                   Some([st EXCEPT !.targetLanguage = language,
                                   !.targetLanguageCode = code,
                                   !.options = <<>>, !.lastText = <<>>,
                                   !.lastTextTimestamp = 0])])
    IN safeShowText(w1, f.seq, <<"Language:", language>>, TRUE,
                    <<[f EXCEPT !.pc = "lang.shown"]>>)

\* POST /set-language
setLanguage(w, language, code) ==
  LET st == IF w.globalState = None THEN defaultState ELSE the(w.globalState)
  IN onLanguageChanged(
       [w EXCEPT !.globalState =
          Some([st EXCEPT !.targetLanguage = language,
                          !.targetLanguageCode = code,
                          !.options = <<>>, !.lastText = <<>>,
                          !.lastTextTimestamp = 0])],
       language, code)

\* The callback without the test of isSpeaking
onAudioChunkUnmuted(w, chunk) ==
  IF chunk.arrayBuffer # None /\ w.isRecordingActive
  THEN IF w.smClientActive /\ w.smClient # None
       THEN [w EXCEPT !.clients = sendAll(@, the(w.smClient),
                                          <<the(chunk.arrayBuffer)>>),
                      !.out.audio = Some("sent")]
       ELSE [w EXCEPT !.audioBuffer = Append(@, the(chunk.arrayBuffer)),
                      !.chunksQueued = @ \cup {the(chunk.arrayBuffer)},
                      !.out.audio = Some("queued")]
  ELSE [w EXCEPT !.out.audio = Some("dropped")]

\* The callback of session.events.onAudioChunk
onAudioChunk(w, chunk) ==
  IF chunk.arrayBuffer # None /\ w.isRecordingActive /\ ~w.isSpeaking
  THEN IF w.smClientActive /\ w.smClient # None
       THEN [w EXCEPT !.clients = sendAll(@, the(w.smClient),
                                          <<the(chunk.arrayBuffer)>>),
                      !.out.audio = Some("sent")]
       ELSE [w EXCEPT !.audioBuffer = Append(@, the(chunk.arrayBuffer)),
                      !.chunksQueued = @ \cup {the(chunk.arrayBuffer)},
                      !.out.audio = Some("queued")]
  ELSE [w EXCEPT !.out.audio = Some("dropped")]

----------------------------------------------------------------------------
(* android_control *)

\* The index a cycle moves to, without the wrap-around
nextIndexNoWrap(index, n, direction) ==
  IF direction = "up" THEN index - 1 ELSE index + 1

\* The index a cycle moves to in a list of n candidates
nextIndex(index, n, direction) ==
  IF direction = "up" THEN (index - 1 + n) % n
  ELSE (index + 1) % n

\* android_control with action "cycle"
cycle(w, direction) ==
  IF w.activeOptions = <<>> THEN w
  ELSE
    LET idx == nextIndex(w.currentIndex, Len(w.activeOptions), direction)
    IN safeShowText([w EXCEPT !.isSelectionStarted = TRUE, !.currentIndex = idx],
                    w.events, chooseText(w.activeOptions, idx + 1), w.impl = 1,
                    <<>>)

\* android_control with action "select"
select(w) ==
  IF w.activeOptions # <<>>
  THEN LET idx == IF w.isSelectionStarted THEN w.currentIndex ELSE 0
       IN IF idx + 1 \in DOMAIN w.activeOptions
          THEN handleActionedSelection(w, w.activeOptions[idx + 1].text)
          ELSE [w EXCEPT !.out.error = Some("TypeError")]
  ELSE IF ~w.isGenerating THEN onGenerateResponses(w)
  ELSE w

\* android_control with action "number" (part_001)
pick(w, number) ==
  IF w.impl = 2 THEN w
  ELSE IF Len(w.activeOptions) > number - 1 /\ number - 1 >= 0
  THEN handleActionedSelection(w, w.activeOptions[number].text)
  ELSE w

onAndroidControl(w, action, direction, number, language, code) ==
  IF ~w.listening \/ w.isSessionClosed THEN w
  ELSE IF action = "cycle" THEN cycle(w, direction)
  ELSE IF action = "select" THEN select(w)
  ELSE IF action = "number" THEN pick(w, number)
  ELSE IF action = "language" /\ w.impl = 1
  THEN onLanguageChanged(w, language, code)
  ELSE w

----------------------------------------------------------------------------
(* Session end *)

cleanup(w) ==
  IF w.impl = 1 THEN
    [w EXCEPT !.isSessionClosed = TRUE,
              !.clients = IF w.smClient = None THEN @
                          ELSE [@ EXCEPT ![the(w.smClient)].status = "stopped"],
              !.expirationInterval = None,
              !.userSessionsMap = FALSE,
              !.globalState = None]
  ELSE IF w.isSessionClosed THEN w
  ELSE
    LET w1 == clearResponseTimeout(
                [clearTimeout(w, w.speakingTimeout) EXCEPT !.speakingTimeout = None])
    IN [w1 EXCEPT !.isSessionClosed = TRUE,
                  !.clients = IF w.smClient = None THEN @
                              ELSE [@ EXCEPT ![the(w.smClient)].status = "stopped"],
                  !.smClient = None, !.smClientActive = FALSE,
                  !.pendingIntent = <<>>,
                  !.expirationInterval = None,
                  !.listening = FALSE,
                  !.userSessionsMap = FALSE,
                  !.globalState = None]

----------------------------------------------------------------------------
(* Shared State readers (webview routes) *)

\* GET /get-options
getOptions(w) ==
  IF w.globalState = None
  THEN [w EXCEPT !.out.http = Some([options |-> <<>>, lastText |-> <<>>,
                                    targetLanguage |-> "", targetLanguageCode |-> "",
                                    age |-> 0])]
  ELSE
    LET st == the(w.globalState)
        age == w.now - st.lastTextTimestamp
        st1 == IF st.lastText # <<>> /\ age > FRESHNESS_MS
               THEN [st EXCEPT !.lastText = <<>>, !.lastTextTimestamp = 0]
               ELSE st
    IN [w EXCEPT !.globalState = Some(st1),
                 !.out.http = Some([payload(w, st1) EXCEPT !.age = age])]

\* GET /events: the response is registered and sent the current state
getEvents(w) ==
  LET w1 == [w EXCEPT !.sseClients = @ + 1]
  IN IF w.globalState = None THEN w1
     ELSE [w1 EXCEPT !.out.sse = Some(payload(w, the(w.globalState)))]

----------------------------------------------------------------------------
(* Control events *)

\* The payload of a control event: the fields a sender leaves out are empty
NoParams == [action |-> "", direction |-> "", number |-> 0, language |-> "",
             code |-> "", text |-> <<>>]

\* internalEvents.emit(name, payload): the listeners the session registered
\* run; an event nobody listens to does nothing
emit(w, name, p) ==
  CASE name = "generate_responses" -> onGenerateResponses(w)
    [] name = "initiate_conversation" -> onInitiateConversation(w, p.text)
    [] name = "user_selection" -> onUserSelection(w, p.text)
    [] name = "speech_finished" -> onSpeechFinished(w)
    [] name = "language_changed" -> onLanguageChanged(w, p.language, p.code)
    [] name = "android_control" ->
         onAndroidControl(w, p.action, p.direction, p.number, p.language, p.code)
    [] OTHER -> w

\* handleToolCall of tools.ts
handleToolCall(w, toolId, p) ==
  LET name ==
        CASE toolId = "start_recording" -> "manual_start_recording"
          [] toolId = "stop_recording" -> "manual_stop_recording"
          [] toolId = "generate_responses" -> "generate_responses"
          [] toolId = "android_control" ->
               IF p.action = "" THEN "" ELSE "android_control"
          [] toolId = "set_language" ->
               IF p.language = "" \/ p.code = "" THEN "" ELSE "language_changed"
          [] OTHER -> ""
  IN IF name = "" THEN w ELSE emit(w, name, p)

----------------------------------------------------------------------------
(* Continuations *)

Ret(w, K) ==
  IF K = <<>> THEN w
  ELSE
    LET f == Head(K) IN
    CASE f.pc = "udwl.store" -> Ret(udwlStore(w, f.text), Tail(K))
      [] f.pc = "pt.tail" -> ptTail2(w, f, trim(f.text))
      [] f.pc = "pt.finally" -> ptFinally(w, f)
      [] f.pc = "pt.next" -> awaitChunk(w, f)
      [] f.pc = "pt.shown" -> ptShown2(w, f)
      [] f.pc = "gen.dots" -> genAfterDots(w, f)
      [] f.pc = "gen.shown" -> genShown(w)
      [] f.pc = "expire.shown" -> expireShown(w)
      [] f.pc = "sel.shown" -> selectionShown(w, f)
      [] f.pc = "intro.shown" -> introShown(w)
      [] f.pc = "lang.shown" -> langStop(w, f)

----------------------------------------------------------------------------
(* Initial state: onSession has run *)

Init(variants) ==
  /\ impl \in variants
  /\ now = StartTime
  /\ ws = "open"
  /\ isSessionClosed = FALSE /\ isRecordingActive = FALSE
  /\ isSpeaking = FALSE
  /\ speakingTimeout = None /\ responseTimeout = None
  /\ audioBuffer = <<>> /\ smClient = None /\ smClientActive = FALSE
  /\ isAudioSubscribed = FALSE
  /\ conversationContext = <<>> /\ activeOptions = <<>>
  /\ currentIndex = 0 /\ isSelectionStarted = FALSE
  /\ pendingIntent = <<>>
  /\ isGenerating = FALSE /\ isTranslating = FALSE
  /\ currentTranslationId = 0 /\ lastInterimTranslationTime = 0
  /\ persistentGlassContent = <<>>
  /\ lastDisplayCallTime = 0 /\ lastDisplayedText = <<>>
  /\ lastSpeakerId = <<>>
  /\ expirationInterval = Some(StartTime + SWEEP_MS)
  /\ listening = TRUE
  /\ userSessionsMap = TRUE
  /\ globalState = None
  /\ sseClients = 0
  /\ tasks = <<>>
  /\ timers = <<[kind |-> "start", due |-> StartTime + START_DELAY_MS]>>
  /\ glasses = <<>>
  /\ out = NoOut
  /\ generationCalls = 0
  /\ clients = <<>>
  /\ events = 0
  /\ finalEvents = 0
  /\ optionsStoredAt = None
  /\ languageRequested = None
  /\ cleanupRan = FALSE
  /\ spokeAt = None
  /\ chunksArrived = 0
  /\ chunksQueued = {}

----------------------------------------------------------------------------
(* Time *)

Min(S) == CHOOSE x \in S : \A y \in S : x <= y

\* The times at which a timer or a timed await is due
deadlines ==
  {timers[i].due : i \in DOMAIN timers}
  \cup {expirationInterval[i] : i \in DOMAIN expirationInterval}
  \cup {tasks[i].due : i \in {j \in DOMAIN tasks : tasks[j].due > 0}}

\* Date.now() advances by one of steps, no further than the next deadline
Tick(steps, maxTime) ==
  \E d \in steps :
    /\ \A t \in deadlines : t > now
    /\ LET t == IF deadlines = {} THEN now + d ELSE Min(deadlines \cup {now + d})
       IN /\ t <= maxTime
          /\ Commit([W EXCEPT !.now = t])

\* The first armed timer that is due
dueTimer == CHOOSE i \in DOMAIN timers :
              /\ timers[i].due <= now
              /\ \A j \in 1..(i - 1) : timers[j].due > now

\* A setTimeout callback runs
FireTimer ==
  /\ \E i \in DOMAIN timers : timers[i].due <= now
  /\ LET t == timers[dueTimer]
         w == [W EXCEPT !.timers = removeAt(@, dueTimer)]
     IN Commit(CASE t.kind = "start" ->
                      IF w.isSessionClosed THEN w ELSE startRecording(w, w.events)
                 [] t.kind = "clear" -> clearDisplay(w)
                 [] t.kind = "speaking" ->
                      IF w.isSpeaking THEN speakingTimedOut(w) ELSE w
                 [] t.kind = "response" -> responseExpired(w)
                 [] t.kind = "introExpiry" -> introExpired(w))

\* The setInterval callback runs
Sweep ==
  /\ expirationInterval # None
  /\ the(expirationInterval) <= now
  /\ Commit(expirationSweep(W))

----------------------------------------------------------------------------
(* Awaited calls settle *)

\* The world in which task i has been taken off tasks to continue
resumed(i) == [W EXCEPT !.tasks = removeAt(@, i),
                        !.out.resumed = Some(tasks[i].await)]
top(i) == Head(tasks[i].k)
rest(i) == Tail(tasks[i].k)
awaiting(kind) == {i \in DOMAIN tasks : tasks[i].await = kind}

ShowTextWallReturns(outcomes) ==
  \E i \in awaiting("showTextWall"), o \in outcomes :
    /\ o = "SDK_TIMEOUT" => impl = 2 /\ tasks[i].due <= now
    /\ Commit(showTextWallSettled(resumed(i), top(i), rest(i), o))

RetryDelayElapsed ==
  \E i \in awaiting("delay") :
    /\ tasks[i].due <= now
    /\ Commit(retryDelayElapsed(resumed(i), top(i), rest(i)))

StreamCreated(outcomes) ==
  \E i \in awaiting("groqCreate"), o \in outcomes :
    Commit(streamCreated([resumed(i) EXCEPT !.out.outcome = Some(o)], top(i), o))

StreamDelivers(outcomes, chunks) ==
  \E i \in awaiting("groqChunk"), o \in outcomes, c \in chunks :
    /\ o = "chunk" => top(i).n < MaxChunks
    /\ o # "chunk" => c = CHOOSE x \in chunks : TRUE
    /\ Commit(streamSettled([resumed(i) EXCEPT !.out.outcome = Some(o)],
                            top(i), o, c))

GenerationReturns(outcomes, counts, fillers) ==
  \E i \in awaiting("groqJSON"), o \in outcomes, n \in counts, b \in fillers :
    /\ o # "ok" => n = (CHOOSE x \in counts : TRUE) /\ b = (CHOOSE x \in fillers : TRUE)
    /\ Commit(generationSettled([resumed(i) EXCEPT !.out.returned = Some(n),
                                                   !.out.outcome = Some(o)],
                                top(i), o, n, b))

IntroReturns(outcomes, counts) ==
  \E i \in awaiting("groqIntro"), o \in outcomes, n \in counts :
    /\ o # "ok" => n = (CHOOSE x \in counts : TRUE)
    /\ Commit(introSettled([resumed(i) EXCEPT !.out.returned = Some(n)],
                           top(i), o, n))

JwtReturns(outcomes) ==
  \E i \in awaiting("jwt"), o \in outcomes :
    Commit(jwtSettled(resumed(i), top(i), o))

StartReturns(outcomes) ==
  \E i \in awaiting("smStart"), o \in outcomes :
    Commit(startSettled(resumed(i), top(i), o))

StopReturns(outcomes) ==
  \E i \in awaiting("smStop"), o \in outcomes :
    Commit(stopSettled(resumed(i), top(i), o))

----------------------------------------------------------------------------
(* External events *)

\* The world in which one more external event is being handled
event == [W EXCEPT !.events = @ + 1]

\* The world in which the control event name with payload p is being handled
control(name, p) == [event EXCEPT !.out.control = Some([name |-> name, p |-> p])]

\* A transcription client that was started delivers a transcript message
ReceiveMessage(messages) ==
  \E m \in messages :
    /\ \E c \in DOMAIN clients : clients[c].status = "started"
    /\ trim(m.transcript) # <<>>
    /\ Commit(processTranscription(
                [event EXCEPT !.out.received = Some(m),
                              !.finalEvents = IF m.isFinal THEN @ + 1 ELSE @],
                m.transcript, m.isFinal, m.speakerId))

\* AddPartialTranscript and AddTranscript messages
partial(t, sp) == [transcript |-> t, isFinal |-> FALSE, speakerId |-> sp]
final(t, sp) == [transcript |-> t, isFinal |-> TRUE, speakerId |-> sp]

\* POST /generate-responses-manual
GenerateResponses ==
  Commit(onGenerateResponses(control("generate_responses", NoParams)))

\* POST /user-selection
UserSelection(selections) ==
  \E x \in selections :
    LET p == [NoParams EXCEPT !.text = x]
    IN Commit(onUserSelection(control("user_selection", p), x))

\* POST /android-control
AndroidControl(actions, directions, numbers, languages) ==
  \E a \in actions, d \in directions, n \in numbers, l \in languages :
    /\ a # "cycle" => d = (CHOOSE x \in directions : TRUE)
    /\ a # "number" => n = (CHOOSE x \in numbers : TRUE)
    /\ a # "language" => l = (CHOOSE x \in languages : TRUE)
    /\ LET p == [NoParams EXCEPT !.action = a,
                                 !.direction = IF a = "cycle" THEN d ELSE "",
                                 !.number = IF a = "number" THEN n ELSE 0,
                                 !.language = IF a = "language" THEN l.language ELSE "",
                                 !.code = IF a = "language" THEN l.code ELSE ""]
       IN Commit(onAndroidControl(control("android_control", p), p.action,
                                  p.direction, p.number, p.language, p.code))

\* POST /initiate-conversation
InitiateConversation(texts) ==
  \E t \in texts :
    LET p == [NoParams EXCEPT !.text = t]
    IN Commit(onInitiateConversation(control("initiate_conversation", p), t))

\* POST /speech-finished
SpeechFinished ==
  Commit(onSpeechFinished(control("speech_finished", NoParams)))

\* POST /set-language
SetLanguage(languages) ==
  \E l \in languages :
    LET p == [NoParams EXCEPT !.language = l.language, !.code = l.code]
    IN Commit(setLanguage(control("set_language", p), l.language, l.code))

\* A tool call of the glasses' assistant reaches onToolCall
ToolCall(toolIds, languages) ==
  \E t \in toolIds, l \in languages :
    /\ t # "set_language" => l = (CHOOSE x \in languages : TRUE)
    /\ LET p == IF t = "set_language"
                THEN [NoParams EXCEPT !.language = l.language, !.code = l.code]
                ELSE NoParams
       IN Commit(handleToolCall(control(t, p), t, p))

\* The session ends: the cleanup handler runs
SessionEnd ==
  /\ ~cleanupRan
  /\ Commit(cleanup([control("session_end", NoParams) EXCEPT !.cleanupRan = TRUE]))

\* GET /get-options
GetOptions == Commit(getOptions(event))

\* GET /events
GetEvents == Commit(getEvents(event))

\* The glasses deliver the next audio chunk of the subscribed stream; a
\* chunk is identified by its arrival number
AudioChunk(maxChunks) ==
  /\ isAudioSubscribed /\ ~cleanupRan
  /\ chunksArrived < maxChunks
  /\ Commit(onAudioChunk([W EXCEPT !.chunksArrived = @ + 1],
                         [arrayBuffer |-> Some(chunksArrived + 1)]))

\* The session transport's readyState changes
Transport(states) ==
  \E x \in states : x # ws /\ Commit([W EXCEPT !.ws = x])

Ukrainian == [language |-> "ukrainian", code |-> "uk"]
English == [language |-> "english", code |-> "en"]

----------------------------------------------------------------------------
(* Specification of the translation path: transcripts of a started client  *)
(* in either target language, translation streams that deliver, end or     *)
(* fail, display writes that succeed.                                      *)

\* transcripts per behaviour
MaxTranscripts == 2
\* Date.now() at which the clock of this specification stops
TMaxTime == 44000

Hi == <<"h", "i">>
FiveWords == <<"a", " ", "b", " ", "c", " ", "d", " ", "e">>
OkDot == <<"o", "k", ".">>

\* The transcripts handled so far: every event but the language change
transcripts == events - (IF isEnglish(W) THEN 0 ELSE 1)

InitT == Init({1, 2})

\* The steps of the translation path; the outcomes say how a translation
\* call may settle
NextTr(createOutcomes) ==
  \/ FireTimer
  \/ Sweep
  \/ Tick({2000}, TMaxTime)
  \/ JwtReturns({"ok"})
  \/ StartReturns({"ok"})
  \/ (events = 0 /\ SetLanguage({Ukrainian}))
  \/ (transcripts < MaxTranscripts
      /\ ReceiveMessage({partial(FiveWords, <<>>), final(Hi, <<>>)}))
  \/ StreamCreated(createOutcomes)
  \/ StreamDelivers({"chunk", "done"}, {OkDot})
  \/ ShowTextWallReturns({"ok"})

\* translation calls may be rejected
SpecT == InitT /\ [][NextTr({"ok", "reject"})]_vars

\* translation calls succeed
SpecTOk == InitT /\ [][NextTr({"ok"})]_vars

----------------------------------------------------------------------------
(* Properties of the translation path *)

\* The handler activation a task belongs to: the bottom frame of its stack
activation(t) == t.k[Len(t.k)]

\* The task is a translation attempt that has not left its streaming loop
streaming(t) == activation(t).pc \in {"pt.create", "pt.stream", "pt.next", "pt.shown"}

\* The non-final translation attempts in flight
interims == {i \in DOMAIN tasks : streaming(tasks[i]) /\ ~activation(tasks[i]).isFinal}

\* The translation and commit paths of finals in flight
finals == {i \in DOMAIN tasks : activation(tasks[i]).isFinal}

\* C1: in every reachable state at most one non-final translation attempt
\* is in flight: no second one starts before the earlier one has finished.
C1_OneInterimInFlight == Cardinality(interims) <= 1

\* C1's case: a partial transcript that passes the debounce arrived while an
\* earlier non-final attempt was in flight, and started nothing.
C1_PartialDuringAttempt ==
  /\ out.received # None
  /\ ~the(out.received).isFinal
  /\ shouldTranslate(W, the(out.received).transcript, FALSE)
  /\ ~isEnglish(W)
  /\ \E i \in interims : activation(tasks[i]).seq < events

\* C2: a final transcript with non-blank text that arrives in an open session
\* starts its translation or commit path in the step that handles it, also
\* when a non-final attempt holds the in-flight lock.
C2_FinalNeverDropped ==
  [][(out'.received # None /\ the(out'.received).isFinal /\ ~isSessionClosed)
       => \/ conversationContext' # conversationContext
          \/ \E i \in DOMAIN tasks' :
               /\ activation(tasks'[i]).isFinal
               /\ activation(tasks'[i]).seq = events']_vars

\* C3: while a final that arrived later is being processed, an older non-final
\* attempt that is still streaming holds a token different from the session's
\* current attempt counter.
C3_FinalInvalidatesOlder ==
  \A i \in interims, j \in finals :
    activation(tasks[j]).seq > activation(tasks[i]).seq
      => activation(tasks[i]).myTranslationId # currentTranslationId

\* C4: once nothing is in flight in an open session, conversationContext
\* holds exactly one entry per final transcript received and none for the
\* non-final ones.
C4_OneEntryPerFinal ==
  (tasks = <<>> /\ ~isSessionClosed) => Len(conversationContext) = finalEvents

----------------------------------------------------------------------------
(* Specification of the conversation history: English finals, selections   *)
(* posted by the webview and one conversation start, each arriving after   *)
(* the display writes of the one before have settled.                      *)

\* external events per behaviour
MaxHEvents == 17
\* selections the history holds when another one is posted
MaxSelections == 2
\* Date.now() at which the clock of this specification stops
HMaxTime == 42000

\* The n-th transcript, selection and topic: texts that repeat with period 7
Word(n) == <<Alphabet[(n % 7) + 1]>>
Reply(n) == <<"s", Alphabet[(n % 7) + 1]>>
Topic == <<"t">>

\* No handler is suspended
quiet == tasks = <<>>

\* The selections conversationContext holds
selectionsHeld ==
  Cardinality({i \in DOMAIN conversationContext :
                 conversationContext[i].role = "assistant"})

InitH == Init({1, 2})

NextH ==
  \/ FireTimer
  \/ Sweep
  \/ Tick({2000}, HMaxTime)
  \/ JwtReturns({"ok"})
  \/ StartReturns({"ok"})
  \/ (quiet /\ events < MaxHEvents
      /\ ReceiveMessage({final(Word(events + 1), <<>>)}))
  \/ (quiet /\ events < MaxHEvents /\ selectionsHeld < MaxSelections
      /\ UserSelection({Reply(events + 1)}))
  \/ (quiet /\ events < MaxHEvents /\ pendingIntent = <<>>
      /\ InitiateConversation({Topic}))
  \/ IntroReturns({"ok"}, {1})
  \/ ShowTextWallReturns({"ok"})

SpecH == InitH /\ [][NextH]_vars

\* conversationContext after one more entry was appended to ctx, the oldest
\* entry evicted or not
appended(ctx, after) ==
  /\ after # <<>>
  /\ \/ after = Append(ctx, after[Len(after)])
     \/ after = Append(Tail(ctx), after[Len(after)])

\* C5: conversationContext never holds more than 15 entries; a step changes
\* it by a reset to the single topic entry or by an append, and an append to
\* a full history evicts exactly its oldest entry.
C5_HistoryCapped ==
  /\ Len(conversationContext) <= MAX_CONTEXT
  /\ [][/\ Len(conversationContext') <= MAX_CONTEXT
        /\ conversationContext' # conversationContext
             => \/ conversationContext' = <<intentEntry(impl, Topic)>>
                \/ /\ appended(conversationContext, conversationContext')
                   /\ Len(conversationContext) = MAX_CONTEXT
                        => Tail(conversationContext)
                             = SubSeq(conversationContext', 1, MAX_CONTEXT - 1)]_vars

\* C5's case: a full history that holds a selection, after more appends than
\* it has room for and no reset.
C5_FullAfterEviction ==
  /\ Len(conversationContext) = MAX_CONTEXT
  /\ events > MAX_CONTEXT
  /\ pendingIntent = <<>>
  /\ selectionsHeld > 0

----------------------------------------------------------------------------
(* Specification of the display: English transcripts, partial ones with a  *)
(* trailing space as the transcription service sends them, at times closer *)
(* together and further apart than the display cooldown.                   *)

\* external events per behaviour
MaxDEvents == 3
\* Date.now() at which the clock of this specification stops
DMaxTime == 43000

YoSp == <<"y", "o", " ">>

InitD == Init({1, 2})

NextD ==
  \/ FireTimer
  \/ Sweep
  \/ Tick({500}, DMaxTime)
  \/ JwtReturns({"ok"})
  \/ StartReturns({"ok"})
  \/ (events < MaxDEvents
      /\ ReceiveMessage({partial(YoSp, <<>>), final(Hi, <<>>)}))
  \/ ShowTextWallReturns({"ok"})

SpecD == InitD /\ [][NextD]_vars

\* C6: when updateDisplayWithLog is passed a non-empty history and a non-empty
\* current, the text it composes is history, one space, current, and a
\* composed text longer than MAX_DISPLAY_CHARS is rendered and stored as its
\* trailing MAX_DISPLAY_CHARS characters.
C6_ComposedWithSpace ==
  (/\ out.composed # None
   /\ the(out.composed).history # <<>>
   /\ the(out.composed).current # <<>>)
    => LET c == the(out.composed)
           composition == c.history \o <<" ">> \o c.current
       IN /\ c.displayText = composition
          /\ Len(composition) > MAX_DISPLAY_CHARS
               => c.text = lastChars(composition, MAX_DISPLAY_CHARS)

\* C7: a display update that the cooldown of safeShowText drops is not
\* observed: its text is not written to the glasses, does not become the
\* Shared State lastText and no state_updated is emitted for it.
C7_ThrottledUnobserved ==
  out.dropped # None
    => /\ out.shown = None
       /\ ~out.stateUpdated
       /\ globalState = None \/ the(globalState).lastText # the(out.dropped)

----------------------------------------------------------------------------
(* Specification of response generation: one English final, then           *)
(* generate_responses triggers and no selection, over the time the         *)
(* candidates take to expire.                                              *)

\* external events per behaviour
MaxGEvents == 3
\* Date.now() at which the clock of this specification stops
GMaxTime == 56000

InitG == Init({1, 2})

NextG ==
  \/ FireTimer
  \/ Sweep
  \/ Tick({2000}, GMaxTime)
  \/ JwtReturns({"ok"})
  \/ StartReturns({"ok"})
  \/ (events = 0 /\ ReceiveMessage({final(Hi, <<>>)}))
  \/ (events >= 1 /\ events < MaxGEvents /\ GenerateResponses)
  \/ GenerationReturns({"ok"}, {2}, {FALSE})
  \/ ShowTextWallReturns({"ok"})

SpecG == InitG /\ [][NextG]_vars

\* C8: a generate_responses trigger that follows a generation call, with no
\* transcript in between, issues no further generation call and changes no
\* session state.
C8_SecondTriggerNoOp ==
  [][(events' = events + 1 /\ generationCalls >= 1)
       => /\ generationCalls' = generationCalls
          /\ isGenerating' = isGenerating
          /\ responseTimeout' = responseTimeout
          /\ timers' = timers
          /\ tasks' = tasks
          /\ globalState' = globalState
          /\ activeOptions' = activeOptions
          /\ persistentGlassContent' = persistentGlassContent]_vars

\* An expiry timer of the candidates is armed
expiryArmed == \E i \in DOMAIN timers : timers[i].kind = "response"

\* C10: once the expiry timeout has passed since a generation stored a
\* non-empty candidate list, with no selection, no handler suspended and no
\* expiry timer still armed, activeOptions and the options and lastText of
\* the Shared State are empty.
C10_CandidatesExpire ==
  (/\ optionsStoredAt # None
   /\ now >= the(optionsStoredAt) + RESPONSE_EXPIRY_MS
   /\ tasks = <<>>
   /\ ~expiryArmed)
    => /\ activeOptions = <<>>
       /\ globalState # None
            => /\ the(globalState).options = <<>>
               /\ the(globalState).lastText = <<>>

----------------------------------------------------------------------------
(* Specification of the Shared State readers: one English final, then      *)
(* GET /get-options and GET /events at any later time.                     *)

\* external events per behaviour
MaxREvents == 3
\* Date.now() at which the clock of this specification stops
RMaxTime == 54000

InitR == Init({1, 2})

NextR ==
  \/ FireTimer
  \/ Sweep
  \/ Tick({1000}, RMaxTime)
  \/ JwtReturns({"ok"})
  \/ StartReturns({"ok"})
  \/ (events = 0 /\ ReceiveMessage({final(Hi, <<>>)}))
  \/ (events >= 1 /\ events < MaxREvents /\ GetOptions)
  \/ (events >= 1 /\ events < MaxREvents /\ GetEvents)
  \/ ShowTextWallReturns({"ok"})

SpecR == InitR /\ [][NextR]_vars

\* C9: whatever a reader is sent (the response of GET /get-options, the
\* snapshot of GET /events, a broadcast to the SSE clients), a lastText older
\* than FRESHNESS_MS is sent as the empty string.
C9_StaleServedEmpty ==
  \A sent \in {out.http, out.sse} :
    (sent # None /\ the(sent).age > FRESHNESS_MS) => the(sent).lastText = <<>>

----------------------------------------------------------------------------
(* Specification of the candidate list: one English final, then generation *)
(* triggers, conversation starts, cycles and selects from the Android app, *)
(* each arriving after the handlers of the one before have finished, with  *)
(* a model service that returns fewer or more responses than the list      *)
(* holds and an introduction call that may fail.                           *)

\* external events per behaviour
MaxOEvents == 5
\* Date.now() at which the clock of this specification stops
OMaxTime == 46000
\* responses the model service returns when it returns too many
ManyResponses == 5

InitO == Init({1, 2})

NextO ==
  \/ FireTimer
  \/ Sweep
  \/ Tick({2000}, OMaxTime)
  \/ JwtReturns({"ok"})
  \/ StartReturns({"ok"})
  \/ (events = 0 /\ ReceiveMessage({final(Hi, <<>>)}))
  \/ (quiet /\ events >= 1 /\ events < MaxOEvents /\ GenerateResponses)
  \/ (quiet /\ events >= 1 /\ events < MaxOEvents
      /\ InitiateConversation({Topic}))
  \/ (quiet /\ events >= 1 /\ events < MaxOEvents
      /\ AndroidControl({"cycle", "select"}, {"up", "down"}, {1}, {Ukrainian}))
  \/ GenerationReturns({"ok"}, {2, ManyResponses}, {FALSE, TRUE})
  \/ IntroReturns({"ok", "reject"}, {ManyResponses})
  \/ ShowTextWallReturns({"ok"})

SpecO == InitO /\ [][NextO]_vars

\* The control event handled in this step is android_control with the action
androidControl(o, action) ==
  /\ o.control # None
  /\ the(o.control).name = "android_control"
  /\ the(o.control).p.action = action

\* C11: in every reachable state activeOptions and the options of the Shared
\* State entry hold at most MAX_OPTIONS candidates, also when the model
\* service returned more responses.
C11_AtMostFourOptions ==
  /\ Len(activeOptions) <= MAX_OPTIONS
  /\ globalState # None => Len(the(globalState).options) <= MAX_OPTIONS

\* C11's case: the model service returned more than MAX_OPTIONS responses
\* and the lists now hold the first MAX_OPTIONS of them.
C11_ManyReturned ==
  /\ out.returned # None
  /\ the(out.returned) > MAX_OPTIONS
  /\ Len(activeOptions) = MAX_OPTIONS
  /\ globalState # None
  /\ Len(the(globalState).options) = MAX_OPTIONS

\* C12: a cycle handled in an open session with n candidates leaves
\* currentIndex in 0..n-1; up from 0 moves to n-1 and the other direction
\* from n-1 moves to 0.
C12_CycleWraps ==
  [][(/\ androidControl(out', "cycle")
      /\ activeOptions # <<>>
      /\ listening /\ ~isSessionClosed)
       => LET n == Len(activeOptions)
              up == the(out'.control).p.direction = "up"
          IN /\ currentIndex' \in 0..(n - 1)
             /\ (up /\ currentIndex = 0) => currentIndex' = n - 1
             /\ (~up /\ currentIndex = n - 1) => currentIndex' = 0]_vars

\* C12's case: the first cycle of the behaviour (the third event, after the
\* final and the trigger of the list) is "up" and has moved from index 0 to
\* the last index of a list of several candidates.
C12_FirstCycleUp ==
  /\ androidControl(out, "cycle")
  /\ the(out.control).p.direction = "up"
  /\ events = 3
  /\ Len(activeOptions) > 1
  /\ currentIndex = Len(activeOptions) - 1

\* The index a select would take: isSelectionStarted ? currentIndex : 0
indexToSelect == IF isSelectionStarted THEN currentIndex ELSE 0

\* C13: when a new candidate list becomes the active list, the index a select
\* would take is 0, whatever cycles were performed on earlier lists.
C13_IndexResetOnNewList ==
  [][(activeOptions' # activeOptions /\ activeOptions' # <<>>)
       => indexToSelect' = 0]_vars

----------------------------------------------------------------------------
(* Specification of speaking suppression: one English final, a generation  *)
(* whose answer may carry a filler, a select, and no speech_finished, over *)
(* the time the safety timeout takes.                                      *)

\* external events per behaviour
MaxSEvents == 3
\* Date.now() at which the clock of this specification stops
SMaxTime == 62000

InitS == Init({1, 2})

NextS ==
  \/ FireTimer
  \/ Sweep
  \/ Tick({2000}, SMaxTime)
  \/ JwtReturns({"ok"})
  \/ StartReturns({"ok"})
  \/ (events = 0 /\ ReceiveMessage({final(Hi, <<>>)}))
  \/ (quiet /\ events >= 1 /\ events < MaxSEvents /\ GenerateResponses)
  \/ (quiet /\ events >= 1 /\ events < MaxSEvents
      /\ AndroidControl({"select"}, {"up"}, {1}, {Ukrainian}))
  \/ GenerationReturns({"ok"}, {2}, {FALSE, TRUE})
  \/ ShowTextWallReturns({"ok"})

SpecS == InitS /\ [][NextS]_vars

\* C14: in an open session isSpeaking does not stay true for longer than the
\* safety timeout after it was last set, also when no speech_finished
\* arrives.
C14_SpeakingResumes ==
  (isSpeaking /\ ~isSessionClosed /\ spokeAt # None)
    => now <= the(spokeAt) + SELECTION_MUTE_MS

----------------------------------------------------------------------------
(* Specification of session end: one English final, control events of the  *)
(* webview and the set_language tool before and after the cleanup handler  *)
(* runs, handlers that are suspended when it runs, and a transport that    *)
(* may close before it.                                                    *)

\* external events per behaviour
MaxEEvents == 4
\* Date.now() at which the clock of this specification stops
EMaxTime == 44000

InitE == Init({1, 2})

NextE ==
  \/ FireTimer
  \/ Sweep
  \/ Tick({2000}, EMaxTime)
  \/ JwtReturns({"ok"})
  \/ StartReturns({"ok"})
  \/ StopReturns({"ok"})
  \/ (events = 0 /\ ReceiveMessage({final(Hi, <<>>)}))
  \/ (events >= 1 /\ events < MaxEEvents /\ GenerateResponses)
  \/ (events >= 1 /\ events < MaxEEvents /\ SpeechFinished)
  \/ (events >= 1 /\ events < MaxEEvents /\ UserSelection({Reply(1)}))
  \/ (events >= 1 /\ events < MaxEEvents
      /\ ToolCall({"set_language"}, {Ukrainian}))
  \/ (events >= 1 /\ events < MaxEEvents /\ SessionEnd)
  \/ (~cleanupRan /\ ws = "open" /\ Transport({"closed"}))
  \/ GenerationReturns({"ok"}, {2}, {FALSE})
  \/ ShowTextWallReturns({"ok"})

SpecE == InitE /\ [][NextE]_vars

\* The control event handled in this step is name
handled(o, name) == o.control # None /\ the(o.control).name = name

\* The session's own state: the closure variables of onSession
sessionFields ==
  << isSessionClosed, isRecordingActive, isSpeaking, speakingTimeout,
     responseTimeout, audioBuffer, smClient, smClientActive,
     conversationContext, activeOptions, currentIndex, isSelectionStarted,
     pendingIntent, isGenerating, isTranslating, currentTranslationId,
     lastInterimTranslationTime, persistentGlassContent, lastDisplayCallTime,
     lastDisplayedText, lastSpeakerId >>

\* C15: once the cleanup handler has run, globalState holds no entry for the
\* user: nothing of the ended session creates or writes one afterwards.
C15_NoEntryAfterCleanup ==
  [][(cleanupRan /\ globalState = None) => globalState' = None]_vars

\* C16: the step in which the cleanup handler runs leaves the session's
\* transcription client stopped, its timeouts and its sweep cleared, its
\* listeners removed and no Shared State entry, also when isSessionClosed
\* was set before by a failed display write.
C16_CleanupTearsDown ==
  [][handled(out', "session_end")
       => /\ \A c \in DOMAIN clients' : clients'[c].status # "started"
          /\ expirationInterval' = None
          /\ \A i \in DOMAIN timers' :
               timers'[i].kind \notin {"speaking", "response", "introExpiry"}
          /\ ~listening'
          /\ globalState' = None]_vars

\* C18: after the cleanup handler has run, a control event changes no
\* session field and not the Shared State entry.
C18_NoMutationAfterEnd ==
  [][(cleanupRan /\ out'.control # None)
       => /\ sessionFields' = sessionFields
          /\ globalState' = globalState]_vars

----------------------------------------------------------------------------
(* Specification of the display writes: English transcripts and a session  *)
(* end, over a transport whose readyState changes at any time and display  *)
(* writes that succeed, time out or are rejected.                          *)

\* external events per behaviour
MaxWEvents == 2
\* Date.now() at which the clock of this specification stops
WMaxTime == 44000

InitW == Init({1, 2})

NextW ==
  \/ FireTimer
  \/ Sweep
  \/ Tick({2000}, WMaxTime)
  \/ JwtReturns({"ok"})
  \/ StartReturns({"ok"})
  \/ (events < MaxWEvents
      /\ ReceiveMessage({partial(YoSp, <<>>), final(Hi, <<>>)}))
  \/ (events >= 1 /\ events < MaxWEvents /\ SessionEnd)
  \/ Transport({"open", "connecting", "closed", "missing"})
  \/ ShowTextWallReturns({"ok", "SDK_TIMEOUT", "not connected", "other"})
  \/ RetryDelayElapsed

SpecW == InitW /\ [][NextW]_vars

\* C17: isSessionClosed never goes back to false, and no display write is
\* started once it is set: not in a later step, and not later in the step
\* that set it.
C17_ClosedStaysClosed ==
  /\ out.started # None => ~the(out.started).closed
  /\ [][isSessionClosed => (isSessionClosed' /\ out'.started = None)]_vars

\* C17's case: a retry iteration of safeShowText that was waiting out its
\* delay continued in a session that is marked closed while the transport is
\* open and the session is still registered, and started no write.
C17_RetryAfterClose ==
  /\ isSessionClosed
  /\ out.resumed = Some("delay")
  /\ out.started = None
  /\ ws = "open"
  /\ userSessionsMap

----------------------------------------------------------------------------
(* Specification of the language and recording controls: the three paths   *)
(* of a language change and the manual start and stop tool calls, around   *)
(* the start of the transcription connection.                              *)

\* external events per behaviour
MaxLEvents == 2
\* Date.now() at which the clock of this specification stops
LMaxTime == 44000

InitL == Init({1, 2})

NextL ==
  \/ FireTimer
  \/ Sweep
  \/ Tick({2000}, LMaxTime)
  \/ JwtReturns({"ok"})
  \/ StartReturns({"ok"})
  \/ StopReturns({"ok"})
  \/ ShowTextWallReturns({"ok"})
  \/ (events < MaxLEvents /\ SetLanguage({Ukrainian}))
  \/ (events < MaxLEvents
      /\ ToolCall({"set_language", "start_recording", "stop_recording"},
                  {Ukrainian}))
  \/ (events < MaxLEvents
      /\ AndroidControl({"language"}, {"up"}, {1}, {Ukrainian}))

SpecL == InitL /\ [][NextL]_vars

\* The transcription clients other than the current one
previousClients == (DOMAIN clients) \ {smClient[i] : i \in DOMAIN smClient}

\* C19: once a language_changed(language, code) event has been handled for
\* an open session and its handler has run to its end, Shared State holds
\* (language, code), every previous transcription client is stopped, and the
\* current client was created with that code.
C19_LanguageApplied ==
  (/\ languageRequested # None
   /\ ~isSessionClosed
   /\ tasks = <<>>)
  => /\ globalState # None
     /\ the(globalState).targetLanguage = the(languageRequested).language
     /\ the(globalState).targetLanguageCode = the(languageRequested).code
     /\ \A c \in previousClients : clients[c].status \in {"stopped", "failed"}
     /\ smClient # None
     /\ clients[the(smClient)].code = the(languageRequested).code

\* C20: a manual stop for a session whose recording is active leaves the
\* recording inactive or its teardown suspended at an await; a manual start
\* for an idle open session makes the recording active; a manual start while
\* the recording is active creates no client and changes no session state.
C20_ManualStartStop ==
  [][/\ (handled(out', "stop_recording") /\ isRecordingActive
           /\ ~isSessionClosed)
        => (~isRecordingActive' \/ tasks' # tasks)
     /\ (handled(out', "start_recording") /\ ~isRecordingActive
           /\ ~isSessionClosed)
        => isRecordingActive'
     /\ (handled(out', "start_recording") /\ isRecordingActive)
        => (clients' = clients /\ sessionFields' = sessionFields)]_vars

----------------------------------------------------------------------------
(* Triggers and selections against stale or cleared state *)

\* C21: a generate_responses trigger that finds the Shared State lastText
\* empty or older than the freshness window, in an open session with no
\* generation in flight, issues no generation call and leaves isGenerating
\* false.
C21_StaleTriggerNoOp ==
  [][(/\ handled(out', "generate_responses")
      /\ ~isSessionClosed /\ ~isGenerating
      /\ staleOrEmpty(W))
       => (generationCalls' = generationCalls /\ ~isGenerating')]_vars

----------------------------------------------------------------------------
(* Specification of the audio path: chunks of the subscribed stream arrive *)
(* around the start of the transcription connection, language changes and *)
(* a selection that mutes the microphone.                                  *)

\* control events per behaviour
MaxAEvents == 2
\* audio chunks per behaviour
MaxAudio == 3
\* Date.now() at which the clock of this specification stops
AMaxTime == 42000

InitA == Init({1, 2})

NextA ==
  \/ FireTimer
  \/ Sweep
  \/ Tick({2000}, AMaxTime)
  \/ JwtReturns({"ok"})
  \/ StartReturns({"ok"})
  \/ StopReturns({"ok"})
  \/ ShowTextWallReturns({"ok"})
  \/ AudioChunk(MaxAudio)
  \/ (quiet /\ events < MaxAEvents /\ SetLanguage({Ukrainian}))
  \/ (quiet /\ events < MaxAEvents /\ UserSelection({Reply(1)}))
  \/ (quiet /\ events < MaxAEvents /\ SpeechFinished)

SpecA == InitA /\ [][NextA]_vars

\* The connection is ready for live audio
connectionReady == smClientActive /\ smClient # None

\* C22: the step that delivers an audio chunk, with recording active and the
\* microphone not muted, appends the chunk to what was sent to the current
\* client if the connection is ready and to the spillover queue if it is
\* not; with the microphone muted it changes nothing of the session.
C22_ChunkRouted ==
  [][(chunksArrived' # chunksArrived)
       => /\ (isRecordingActive /\ ~isSpeaking /\ connectionReady)
               => /\ clients' = sendAll(clients, the(smClient), <<chunksArrived'>>)
                  /\ audioBuffer' = audioBuffer
          /\ (isRecordingActive /\ ~isSpeaking /\ ~connectionReady)
               => /\ audioBuffer' = Append(audioBuffer, chunksArrived')
                  /\ clients' = clients
          /\ isSpeaking
               => /\ sessionFields' = sessionFields
                  /\ clients' = clients
                  /\ tasks' = tasks /\ timers' = timers
                  /\ globalState' = globalState]_vars

\* C22's case: a chunk was just dropped because the microphone is muted, in
\* a recording session that has queued one chunk and sent another before.
C22_DroppedWhileSpeaking ==
  /\ out.audio = Some("dropped")
  /\ isSpeaking /\ isRecordingActive
  /\ chunksQueued # {}
  /\ \E c \in DOMAIN clients : clients[c].sent # <<>>

----------------------------------------------------------------------------
(* Specification of the spillover queue: chunks arrive around starts of    *)
(* the transcription connection that succeed or fail and language changes  *)
(* that may overlap.                                                       *)

InitQ == Init({1, 2})

NextQ ==
  \/ FireTimer
  \/ Sweep
  \/ Tick({2000}, AMaxTime)
  \/ JwtReturns({"ok", "reject"})
  \/ StartReturns({"ok", "reject"})
  \/ StopReturns({"ok"})
  \/ ShowTextWallReturns({"ok"})
  \/ AudioChunk(MaxAudio)
  \/ (events < MaxAEvents /\ SetLanguage({Ukrainian}))

SpecQ == InitQ /\ [][NextQ]_vars

\* The places a chunk is held at: a position of the spillover queue (client
\* 0) or of what was sent to a client
holders(n) ==
  {<<0, i>> : i \in {j \in DOMAIN audioBuffer : audioBuffer[j] = n}}
  \cup UNION {{<<c, i>> : i \in {j \in DOMAIN clients[c].sent :
                                   clients[c].sent[j] = n}} :
              c \in DOMAIN clients}

\* A sequence of chunks is in arrival order
inArrivalOrder(s) == \A i, j \in DOMAIN s : i < j => s[i] < s[j]

\* C23: every chunk that was accepted into the spillover queue is either
\* still queued or was sent to a connection, exactly once, and what each
\* connection was sent is in arrival order.
C23_QueueDrainedInOrder ==
  /\ \A n \in chunksQueued : Cardinality(holders(n)) = 1
  /\ \A c \in DOMAIN clients : inArrivalOrder(clients[c].sent)

----------------------------------------------------------------------------
(* Display writes: the rate limiter and the duplicate test *)

\* The step handles a final transcript whose commit is written at once
\* (English), or writes an explicit clear: updateDisplayWithLog("", "")
finalOrClear(o) ==
  /\ o.composed # None
  /\ \/ o.received # None /\ the(o.received).isFinal
     \/ the(o.composed).history = <<>> /\ the(o.composed).current = <<>>

\* C24: the display write of a final commit or of an explicit clear is never
\* dropped by the rate limiter of safeShowText.
C24_ForcedNeverDropped == finalOrClear(out) => out.dropped = None

\* external events per behaviour
MaxPEvents == 3
\* Date.now() at which the clock of this specification stops
PMaxTime == 43500

InitP == Init({1, 2})

\* English transcripts before and after generate_responses triggers whose
\* generation call succeeds or returns unparseable output, one handler at a
\* time
NextP ==
  \/ FireTimer
  \/ Sweep
  \/ Tick({500}, PMaxTime)
  \/ JwtReturns({"ok"})
  \/ StartReturns({"ok"})
  \/ (quiet /\ events < MaxPEvents
      /\ ReceiveMessage({partial(FiveWords, <<>>), final(Hi, <<>>)}))
  \/ (quiet /\ events >= 1 /\ events < MaxPEvents /\ GenerateResponses)
  \/ GenerationReturns({"ok", "unparseable"}, {2}, {FALSE})
  \/ ShowTextWallReturns({"ok"})

SpecP == InitP /\ [][NextP]_vars

\* The texts of the display writes that are in flight
writesInFlight == {top(i).text : i \in awaiting("showTextWall")}

\* C25: when updateDisplayWithLog skips its write as a duplicate, the text it
\* computed is the text the glasses were last sent, or that of a write in
\* flight.
C25_SkipOnlyShownText ==
  (out.composed # None /\ the(out.composed).skipped)
    => (the(out.composed).text = glasses
        \/ the(out.composed).text \in writesInFlight)

\* C26: when the generation call returns unparseable output, the handler
\* leaves the session as its trigger found it: the Shared State entry (its
\* lastText and timestamp), persistentGlassContent, pendingIntent and the
\* candidate list are those of before the trigger, and isGenerating is false.
C26_UnparseableReverts ==
  [][(out'.outcome = Some("unparseable"))
       => /\ ~isGenerating'
          /\ \A i \in awaiting("groqJSON") :
               top(i).before =
                 Some([globalState |-> globalState',
                       persistentGlassContent |-> persistentGlassContent',
                       pendingIntent |-> pendingIntent',
                       activeOptions |-> activeOptions'])]_vars

----------------------------------------------------------------------------
(* Specification of selections against an empty candidate list: no         *)
(* transcript arrives and no candidates are generated, so every selection  *)
(* finds activeOptions empty.                                              *)

\* control events per behaviour
MaxNEvents == 3
\* Date.now() at which the clock of this specification stops
NMaxTime == 44000

InitN == Init({1, 2})

NextN ==
  \/ FireTimer
  \/ Sweep
  \/ Tick({1000}, NMaxTime)
  \/ JwtReturns({"ok"})
  \/ StartReturns({"ok"})
  \/ (quiet /\ events < MaxNEvents /\ UserSelection({Reply(1)}))
  \/ (quiet /\ events < MaxNEvents
      /\ AndroidControl({"select", "number"}, {"up"}, {1}, {Ukrainian}))
  \/ ShowTextWallReturns({"ok"})

SpecN == InitN /\ [][NextN]_vars

\* The control event handled in this step requests a selection
selectionRequested(o) ==
  \/ handled(o, "user_selection")
  \/ androidControl(o, "select")
  \/ androidControl(o, "number")

\* C27: a selection requested in an open session while activeOptions is
\* empty (user_selection, android_control select or a numeric pick) appends
\* nothing to conversationContext, leaves isSpeaking as it was, suspends no
\* handler (so no display write and no playback webhook follow) and starts
\* no generation.
C27_EmptySelectionNoOp ==
  [][(/\ selectionRequested(out')
      /\ activeOptions = <<>> /\ ~isSessionClosed)
       => /\ conversationContext' = conversationContext
          /\ isSpeaking' = isSpeaking
          /\ tasks' = tasks
          /\ out'.webhook = None
          /\ generationCalls' = generationCalls
          /\ isGenerating' = isGenerating]_vars

----------------------------------------------------------------------------
(* Specification of the persistent display content under long finals: the  *)
(* session stays in English and receives finals whose concatenation is     *)
(* longer than twice MAX_DISPLAY_CHARS.                                    *)

\* external events per behaviour
MaxCEvents == 3
\* Date.now() at which the clock of this specification stops
CMaxTime == 44000
\* characters of the long final
LongChars == 130

InitC == Init({1, 2})

NextC ==
  \/ FireTimer
  \/ Sweep
  \/ Tick({1000}, CMaxTime)
  \/ JwtReturns({"ok"})
  \/ StartReturns({"ok"})
  \/ (events < MaxCEvents
      /\ ReceiveMessage({final(Pat(LongChars), <<>>), final(Hi, <<>>)}))
  \/ ShowTextWallReturns({"ok"})

SpecC == InitC /\ [][NextC]_vars

\* history, one space if history is not empty, and the committed text
joined(history, text) ==
  (IF history # <<>> THEN history \o <<" ">> ELSE <<>>) \o text

\* The trailing n characters of s, or s if it is not longer
tail(s, n) == IF Len(s) > n THEN lastChars(s, n) ELSE s

\* C28: persistentGlassContent is never longer than 2 * MAX_DISPLAY_CHARS,
\* and a final commit (English, no speaker label) leaves in it the trailing
\* 2 * MAX_DISPLAY_CHARS characters of the former content joined with the
\* committed text.
C28_DisplayContentCapped ==
  [][/\ Len(persistentGlassContent') <= 2 * MAX_DISPLAY_CHARS
     /\ (/\ out'.received # None
         /\ the(out'.received).isFinal
         /\ conversationContext' # conversationContext)
          => persistentGlassContent' =
               tail(joined(persistentGlassContent,
                           trim(the(out'.received).transcript)),
                    2 * MAX_DISPLAY_CHARS)]_vars

----------------------------------------------------------------------------
(* The gate of non-final transcripts *)

\* The cooldown between two translation attempts for non-final transcripts
interimCooldown == IF impl = 1 THEN INTERIM_COOLDOWN1 ELSE INTERIM_COOLDOWN2

\* C29: a non-final transcript starts a translation attempt only if it has
\* more than MIN_WORDS space-separated words and more than the cooldown has
\* passed since the last attempt for a non-final transcript started; a
\* non-final transcript that fails either condition changes no variable of
\* the session, leaves the Shared State entry as it is and suspends nothing.
C29_InterimGate ==
  [][(out'.received # None /\ ~the(out'.received).isFinal)
       => LET t == the(out'.received).transcript
              pass == /\ splitLength(trim(t)) > MIN_WORDS
                      /\ now - lastInterimTranslationTime > interimCooldown
          IN /\ currentTranslationId' # currentTranslationId => pass
             /\ ~pass => /\ sessionFields' = sessionFields
                         /\ globalState' = globalState
                         /\ tasks' = tasks]_vars

----------------------------------------------------------------------------
(* Specification of final commits in a non-English target language: the    *)
(* language is set first, then finals are translated and committed between *)
(* generation triggers and selections, one handler at a time.              *)

\* external events per behaviour
MaxFEvents == 4
\* Date.now() at which the clock of this specification stops
FMaxTime == 44000

\* a translation chunk that neither ends a sentence nor is long enough for
\* a display update of the streaming loop
Ok == <<"o", "k">>

InitF == Init({1, 2})

NextF ==
  \/ FireTimer
  \/ Sweep
  \/ Tick({1000}, FMaxTime)
  \/ JwtReturns({"ok"})
  \/ StartReturns({"ok"})
  \/ (events = 0 /\ SetLanguage({Ukrainian}))
  \/ (quiet /\ events >= 1 /\ events < MaxFEvents
      /\ ReceiveMessage({final(Hi, <<>>)}))
  \/ (quiet /\ events >= 2 /\ events < MaxFEvents /\ GenerateResponses)
  \/ (quiet /\ events >= 2 /\ events < MaxFEvents /\ UserSelection({Reply(1)}))
  \/ StreamCreated({"ok"})
  \/ StreamDelivers({"chunk", "done"}, {Ok})
  \/ GenerationReturns({"ok"}, {2}, {FALSE})
  \/ ShowTextWallReturns({"ok"})

SpecF == InitF /\ [][NextF]_vars

\* C30: in the step that finishes the handler of a final transcript received
\* in a non-English target language (translated and committed), the Shared
\* State lastText is persistentGlassContent clipped to its trailing
\* MAX_DISPLAY_CHARS characters, whatever commits, clears and generations
\* came before.
C30_LastTextIsCommittedContent ==
  [][(/\ \E i \in finals : ~activation(tasks[i]).english
      /\ tasks' = <<>>
      /\ globalState' # None)
       => the(globalState').lastText = tailClip(persistentGlassContent')]_vars

----------------------------------------------------------------------------
(* The periodic sweep *)

\* The setInterval callback runs in this step: the interval is armed again
sweepRuns == expirationInterval # None /\ expirationInterval' # None
             /\ expirationInterval' # expirationInterval

\* The Shared State lastText is set and older than the freshness window
staleText ==
  /\ globalState # None
  /\ the(globalState).lastText # <<>>
  /\ now - the(globalState).lastTextTimestamp > FRESHNESS_MS

\* C31: in an open session the sweep that finds a non-empty lastText older
\* than FRESHNESS_MS empties it together with persistentGlassContent and
\* lastSpeakerId, and as the sweep runs every SWEEP_MS no open session holds
\* a non-empty lastText older than FRESHNESS_MS + SWEEP_MS.
C31_SweepClearsStaleText ==
  [][/\ (sweepRuns /\ ~isSessionClosed /\ staleText)
          => /\ the(globalState').lastText = <<>>
             /\ persistentGlassContent' = <<>>
             /\ lastSpeakerId' = <<>>
     /\ (~isSessionClosed' /\ globalState' # None
         /\ the(globalState').lastText # <<>>)
          => now' - the(globalState').lastTextTimestamp
               <= FRESHNESS_MS + SWEEP_MS]_vars

\* C31's case: the sweep has just run in an open session, composed the empty
\* display and left lastText and persistentGlassContent empty after a final
\* had been shown.
C31_SweptStaleText ==
  /\ ~isSessionClosed
  /\ expirationInterval = Some(now + SWEEP_MS)
  /\ out.composed # None
  /\ the(out.composed).history = <<>> /\ the(out.composed).current = <<>>
  /\ conversationContext # <<>>
  /\ globalState # None /\ the(globalState).lastText = <<>>
  /\ persistentGlassContent = <<>>

----------------------------------------------------------------------------
(* Specification of failing provider calls: translations of partials and   *)
(* finals and generations, one handler at a time, with calls that reject   *)
(* and a translation stream that throws.                                   *)

\* external events per behaviour
MaxVEvents == 3
\* Date.now() at which the clock of this specification stops
VMaxTime == 44000

InitV == Init({1, 2})

NextV ==
  \/ FireTimer
  \/ Sweep
  \/ Tick({2000}, VMaxTime)
  \/ JwtReturns({"ok"})
  \/ StartReturns({"ok"})
  \/ (events = 0 /\ SetLanguage({Ukrainian}))
  \/ (quiet /\ events >= 1 /\ events < MaxVEvents
      /\ ReceiveMessage({partial(FiveWords, <<>>), final(Hi, <<>>)}))
  \/ (quiet /\ events >= 2 /\ events < MaxVEvents /\ GenerateResponses)
  \/ StreamCreated({"ok", "reject"})
  \/ StreamDelivers({"chunk", "done", "error"}, {OkDot})
  \/ GenerationReturns({"ok", "reject"}, {2}, {FALSE})
  \/ ShowTextWallReturns({"ok"})

SpecV == InitV /\ [][NextV]_vars

\* The provider call that settled in this step rejected or threw
providerFailed(o) == o.outcome \in {Some("reject"), Some("error")}

\* C32: the step in which a translation or generation call fails raises no
\* error out of its handler, leaves the flag of that handler (isGenerating
\* for a generation, isTranslating for a translation) false, appends nothing
\* to conversationContext and stores no candidate list.
C32_FailureContained ==
  [][providerFailed(out')
       => /\ out'.error = None
          /\ out'.resumed = Some("groqJSON") => ~isGenerating'
          /\ out'.resumed \in {Some("groqCreate"), Some("groqChunk")}
               => ~isTranslating'
          /\ conversationContext' = conversationContext
          /\ activeOptions' = activeOptions
          /\ globalState' # None /\ globalState # None
               => the(globalState').options = the(globalState).options]_vars

----------------------------------------------------------------------------
(* The generation flag *)

\* C33: isGenerating is true only while an invocation of onGenerateResponses
\* is suspended: whenever no handler is suspended the flag is false, on
\* whichever path the last invocation returned.
C33_FlagResetOnReturn == quiet => ~isGenerating

----------------------------------------------------------------------------
(* The index an android_control select resolves *)

\* C34: an android_control select handled in an open session with a
\* non-empty activeOptions uses an index (currentIndex if a cycle has
\* started, else 0) that is an index of the list, and raises no error.
C34_SelectIndexValid ==
  [][(/\ androidControl(out', "select")
      /\ listening /\ ~isSessionClosed
      /\ activeOptions # <<>>)
       => /\ indexToSelect + 1 \in DOMAIN activeOptions
          /\ out'.error = None]_vars

----------------------------------------------------------------------------
(* Specification of the candidate-expiry timer: after one English final,   *)
(* generation triggers, conversation starts and selections arrive while    *)
(* the provider calls and display writes of earlier ones are suspended.    *)

\* external events per behaviour
MaxMEvents == 3
\* Date.now() at which the clock of this specification stops
MMaxTime == 44000

InitM == Init({1, 2})

NextM ==
  \/ FireTimer
  \/ Sweep
  \/ Tick({2000}, MMaxTime)
  \/ JwtReturns({"ok"})
  \/ StartReturns({"ok"})
  \/ (events = 0 /\ ReceiveMessage({final(Hi, <<>>)}))
  \/ (events >= 1 /\ events < MaxMEvents /\ GenerateResponses)
  \/ (events >= 1 /\ events < MaxMEvents /\ InitiateConversation({Topic}))
  \/ (events >= 1 /\ events < MaxMEvents /\ UserSelection({Reply(1)}))
  \/ GenerationReturns({"ok"}, {2}, {FALSE})
  \/ IntroReturns({"ok"}, {2})
  \/ ShowTextWallReturns({"ok"})

SpecM == InitM /\ [][NextM]_vars

\* The candidate-expiry timers armed in the timer list ts
expiryTimers(ts) ==
  {i \in DOMAIN ts : ts[i].kind \in {"response", "introExpiry"}}

\* This step is the callback of a candidate-expiry timer emptying the list
expiryClears ==
  /\ out'.control = None /\ out'.resumed = None /\ out'.received = None
  /\ \E i \in DOMAIN timers : timers[i].due <= now
  /\ dueTimer \in expiryTimers(timers)
  /\ activeOptions # <<>> /\ activeOptions' = <<>>

\* C35: at most one candidate-expiry timer is armed at any time, and the
\* expiry timer whose callback empties the candidate list is the one
\* responseTimeout refers to, the timer armed for the list installed last.
C35_OneExpiryTimer ==
  [][/\ Cardinality(expiryTimers(timers')) <= 1
     /\ expiryClears => responseTimeout = Some(timers[dueTimer])]_vars

----------------------------------------------------------------------------
(* The transcription clients of a session *)

\* The clients that were created and neither stopped nor failed to start
liveClients == {c \in DOMAIN clients : clients[c].status \in {"created", "started"}}

\* C36: at most one transcription client that was created and not stopped
\* exists at any time, and every such client is the one smClient refers to.
C36_OneLiveClient ==
  /\ Cardinality(liveClients) <= 1
  /\ \A c \in liveClients : smClient = Some(c)

\* C37: whenever smClientActive is true, smClient refers to a client whose
\* own start call has resolved (it is started, or was started and is being
\* stopped), and isRecordingActive is true: no audio is sent to a client
\* whose start is still awaited or has failed.
C37_ActiveMeansStarted ==
  smClientActive
    => /\ smClient # None
       /\ clients[the(smClient)].status \in {"started", "stopped"}
       /\ isRecordingActive

----------------------------------------------------------------------------
(* Specification of a reconnect: the modelled session is the second one of *)
(* its user; the first session of the same user is still open when it      *)
(* starts, and its cleanup handler runs at some later time.                *)

\* The cleanup handler of the user's earlier session: of the state shared
\* with this session it deletes the userSessionsMap entry and the Shared
\* State entry of the user id
OlderSessionCleanup ==
  /\ userSessionsMap /\ ~cleanupRan
  /\ Commit([W EXCEPT !.userSessionsMap = FALSE, !.globalState = None])

\* external events per behaviour
MaxKEvents == 2
\* Date.now() at which the clock of this specification stops
KMaxTime == 44000

InitK == Init({1, 2})

NextK ==
  \/ FireTimer
  \/ Sweep
  \/ Tick({1000}, KMaxTime)
  \/ JwtReturns({"ok"})
  \/ StartReturns({"ok"})
  \/ OlderSessionCleanup
  \/ (events < MaxKEvents /\ ReceiveMessage({final(Hi, <<>>)}))
  \/ ShowTextWallReturns({"ok"})

SpecK == InitK /\ [][NextK]_vars

\* C38: as long as this session's own cleanup has not run, no step removes
\* its userSessionsMap entry or its Shared State entry, and the session does
\* not mark itself closed: the cleanup of the user's earlier session leaves
\* the newer session untouched.
C38_OlderCleanupHarmless ==
  [][~cleanupRan'
       => /\ userSessionsMap => userSessionsMap'
          /\ globalState # None => globalState' # None
          /\ ~isSessionClosed']_vars

----------------------------------------------------------------------------
(* Specification of a language change over a candidate list: one English   *)
(* final, a generation that installs candidates, then POST /set-language,  *)
(* one handler at a time.                                                  *)

\* external events per behaviour
MaxBEvents == 3
\* Date.now() at which the clock of this specification stops
BMaxTime == 44000

InitB == Init({1, 2})

NextB ==
  \/ FireTimer
  \/ Sweep
  \/ Tick({2000}, BMaxTime)
  \/ JwtReturns({"ok"})
  \/ StartReturns({"ok"})
  \/ StopReturns({"ok"})
  \/ (events = 0 /\ ReceiveMessage({final(Hi, <<>>)}))
  \/ (quiet /\ events >= 1 /\ events < MaxBEvents /\ GenerateResponses)
  \/ (quiet /\ events >= 1 /\ events < MaxBEvents /\ SetLanguage({Ukrainian}))
  \/ GenerationReturns({"ok"}, {2}, {FALSE})
  \/ ShowTextWallReturns({"ok"})

SpecB == InitB /\ [][NextB]_vars

\* C39: whenever no handler is suspended, the options of the Shared State
\* entry are the session's activeOptions: after POST /set-language emptied
\* the Shared State options the session holds no candidates either.
C39_OptionsInSync ==
  (quiet /\ globalState # None) => the(globalState).options = activeOptions

====
